---- MODULE Spec2Model ----
(***************************************************************************)
(* Planar homography engine (Homography2), its rendering loop              *)
(* (YawRotationTest), the CPU-side point mapping of the validation         *)
(* scripts, and CameraConfig.                                              *)
(*                                                                         *)
(* Numbers are exact rationals <<num, den>> in lowest terms with den > 0.  *)
(* Matrices are row-major: M[i][j] is row i, column j, i, j \in 1..3.      *)
(* Angles are whole degrees; Cos/Sin are exact at multiples of 90 degrees  *)
(* and three-decimal fixed point at the other multiples of 5 degrees.      *)
(***************************************************************************)
EXTENDS Integers, Sequences, FiniteSets, TLC

VARIABLES
    h,            \* the Homography2 instance: its input fields
    ret,          \* outcome of the last engine operation
    current_yaw,  \* YawRotationTest.current_yaw
    uniforms,     \* the "uniforms" property of the glshader element warp
    loop,         \* GLib.MainLoop: "none", "created", "running", "quit", "done"
    timer,        \* TRUE while the GLib timeout source is scheduled
    pipeline,     \* Gst pipeline state: "NULL" or "PLAYING"
    pc,           \* where YawRotationTest.run() stands
    cfg,          \* the CameraConfig instance, or NoConfig before construction
    h2,           \* a second Homography2 instance
    heap,         \* the contents of the Python lists, by the list's identity
    tail,         \* Pipeline.tail: the element appended last, or None
    gst,          \* the Gst.Pipeline behind a Pipeline: children, links, properties
    k1,           \* calibrate_distortion.py: the radial coefficient k1
    k2            \* calibrate_distortion.py: the radial coefficient k2

vars == <<h, ret, current_yaw, uniforms, loop, timer, pipeline, pc, cfg, h2, heap,
          tail, gst, k1, k2>>

---------------------------------------------------------------------------
(* Rational arithmetic *)

RECURSIVE GCD(_, _)
GCD(a, b) == IF b = 0 THEN a ELSE GCD(b, a % b)

Abs(x) == IF x < 0 THEN -x ELSE x

\* n/d in lowest terms with a positive denominator (d # 0)
Rat(n, d) ==
    LET g == GCD(Abs(n), Abs(d))
        s == IF d < 0 THEN -1 ELSE 1
    IN  <<(s * n) \div g, (s * d) \div g>>

I(n) == <<n, 1>>
Zero == I(0)
One == I(1)

RNeg(a) == <<-a[1], a[2]>>
RAbs(a) == <<Abs(a[1]), a[2]>>

\* a*b, cross-reduced before multiplying to keep the products small
RMulReduced(a, b) ==
    LET g1 == GCD(Abs(a[1]), b[2])
        g2 == GCD(Abs(b[1]), a[2])
    IN  <<(a[1] \div g1) * (b[1] \div g2), (a[2] \div g2) * (b[2] \div g1)>>

RMul(a, b) ==
    IF a[1] = 0 \/ b[1] = 0 THEN Zero
    ELSE IF a = One THEN b
    ELSE IF b = One THEN a
    ELSE RMulReduced(a, b)

\* a+b over the least common denominator
RAddReduced(a, b) ==
    LET g == GCD(a[2], b[2])
    IN  Rat(a[1] * (b[2] \div g) + b[1] * (a[2] \div g), (a[2] \div g) * b[2])

RAdd(a, b) ==
    IF a[1] = 0 THEN b
    ELSE IF b[1] = 0 THEN a
    ELSE RAddReduced(a, b)

RSub(a, b) == RAdd(a, RNeg(b))

\* a/b for b # 0
RDiv(a, b) == RMul(a, Rat(b[2], b[1]))

\* n1/d1 < n2/d2 for d1, d2 > 0, by continued fractions (no large products)
RECURSIVE Less(_, _, _, _)
Less(n1, d1, n2, d2) ==
    LET q1 == n1 \div d1
        q2 == n2 \div d2
        r1 == n1 % d1
        r2 == n2 % d2
    IN  IF q1 # q2 THEN q1 < q2
        ELSE IF r2 = 0 THEN FALSE
        ELSE IF r1 = 0 THEN TRUE
        ELSE Less(d2, r2, d1, r1)

RLt(a, b) == Less(a[1], a[2], b[1], b[2])
RLe(a, b) == ~RLt(b, a)
RGt(a, b) == RLt(b, a)
RGe(a, b) == ~RLt(a, b)

---------------------------------------------------------------------------
(* 3-vectors and 3x3 matrices over the rationals *)

Idx == 1..3

Dot(a, b) == RAdd(RAdd(RMul(a[1], b[1]), RMul(a[2], b[2])), RMul(a[3], b[3]))

Cross(a, b) ==
    << RSub(RMul(a[2], b[3]), RMul(a[3], b[2])),
       RSub(RMul(a[3], b[1]), RMul(a[1], b[3])),
       RSub(RMul(a[1], b[2]), RMul(a[2], b[1])) >>

Col(M, j) == <<M[1][j], M[2][j], M[3][j]>>

\* TRUE once the operand has been evaluated: the matrix operations evaluate
\* their operands before using them, which bounds the depth of evaluation
Evaluated(x) == x = x

\* A @ B
MatMul(A, B) ==
    LET row(i) == <<Dot(A[i], Col(B, 1)), Dot(A[i], Col(B, 2)), Dot(A[i], Col(B, 3))>>
    IN  IF Evaluated(A) /\ Evaluated(B) THEN <<row(1), row(2), row(3)>> ELSE <<>>

\* A @ x for a column vector x
MatVec(A, x) ==
    IF Evaluated(A) /\ Evaluated(x)
    THEN <<Dot(A[1], x), Dot(A[2], x), Dot(A[3], x)>> ELSE <<>>

MatSub(A, B) ==
    LET row(i) == <<RSub(A[i][1], B[i][1]), RSub(A[i][2], B[i][2]), RSub(A[i][3], B[i][3])>>
    IN  IF Evaluated(A) /\ Evaluated(B) THEN <<row(1), row(2), row(3)>> ELSE <<>>

\* every entry divided by the scalar s # 0
MatScale(A, s) ==
    LET row(i) == <<RDiv(A[i][1], s), RDiv(A[i][2], s), RDiv(A[i][3], s)>>
    IN  IF Evaluated(A) /\ Evaluated(s) THEN <<row(1), row(2), row(3)>> ELSE <<>>

\* the outer product a b^T
Outer(a, b) ==
    LET row(i) == <<RMul(a[i], b[1]), RMul(a[i], b[2]), RMul(a[i], b[3])>>
    IN  IF Evaluated(a) /\ Evaluated(b) THEN <<row(1), row(2), row(3)>> ELSE <<>>

\* the matrix whose columns are a, b, c
FromCols(a, b, c) == <<<<a[1], b[1], c[1]>>, <<a[2], b[2], c[2]>>, <<a[3], b[3], c[3]>>>>

---------------------------------------------------------------------------
(* Homography2: the engine's derived quantities *)

\* EPS = 1e-6
Eps == <<1, 1000000>>

\* 1000*cos at 0, 5, ..., 90 degrees
CosTab == <<1000, 996, 985, 966, 940, 906, 866, 819, 766, 707,
            643, 574, 500, 423, 342, 259, 174, 87, 0>>

\* cos of a whole number of degrees, a multiple of 5
Cos(deg) ==
    LET a == deg % 360
    IN  IF a <= 90 THEN Rat(CosTab[(a \div 5) + 1], 1000)
        ELSE IF a <= 180 THEN Rat(-CosTab[((180 - a) \div 5) + 1], 1000)
        ELSE IF a <= 270 THEN Rat(-CosTab[((a - 180) \div 5) + 1], 1000)
        ELSE Rat(CosTab[((360 - a) \div 5) + 1], 1000)

Sin(deg) == Cos(deg - 90)

\* elementary rotations about the X, Y and Z axes
Rx(deg) == << <<One, Zero, Zero>>,
              <<Zero, Cos(deg), RNeg(Sin(deg))>>,
              <<Zero, Sin(deg), Cos(deg)>> >>

Ry(deg) == << <<Cos(deg), Zero, Sin(deg)>>,
              <<Zero, One, Zero>>,
              <<RNeg(Sin(deg)), Zero, Cos(deg)>> >>

Rz(deg) == << <<Cos(deg), RNeg(Sin(deg)), Zero>>,
              <<Sin(deg), Cos(deg), Zero>>,
              <<Zero, Zero, One>> >>

\* rotation(): roll about Y, pitch about X, yaw about Z, applied yaw first
R(e) == MatMul(MatMul(Ry(e.roll), Rx(e.pitch)), Rz(e.yaw))

\* the camera centre C as a column vector
C(e) == <<e.camera_x, e.camera_y, e.camera_z>>

Neg3(a) == <<RNeg(a[1]), RNeg(a[2]), RNeg(a[3])>>

\* the translation taken without the rotation
t_unrotated(e) == Neg3(C(e))

\* the translation with the sign left out
t_unnegated(e) == MatVec(R(e), C(e))

\* translation(): t = -R.C
t(e) == Neg3(MatVec(R(e), C(e)))

\* focal_length_px(): fx = fy = f_mm * 1000 / pixel_pitch_um
focal_length_px(e) == RDiv(RMul(e.focal_length_mm, I(1000)), e.pixel_pitch_um)

\* the principal point with width and height exchanged
principal_point_transposed(e) == <<Rat(e.cam_height, 2), Rat(e.cam_width, 2)>>

\* principal_point(): the image centre
principal_point(e) == <<Rat(e.cam_width, 2), Rat(e.cam_height, 2)>>

\* camera_matrix()
K(e) ==
    LET f == focal_length_px(e)
        pp == principal_point(e)
    IN  << <<f, Zero, pp[1]>>, <<Zero, f, pp[2]>>, <<Zero, Zero, One>> >>

\* the integer square root of a perfect square
ISqrt(n) == CHOOSE k \in 0..n : k * k = n

\* the square root of a perfect-square rational
RSqrt(q) == <<ISqrt(q[1]), ISqrt(q[2])>>

\* the length of a vector whose squared length is a perfect-square rational
Length(a) == RSqrt(Dot(a, a))

Div3(a, l) == <<RDiv(a[1], l), RDiv(a[2], l), RDiv(a[3], l)>>
Mul3(s, a) == <<RMul(s, a[1]), RMul(s, a[2]), RMul(s, a[3])>>

\* a / |a| for a # 0
normalize(a) == Div3(a, Length(a))

WorldX == <<One, Zero, Zero>>
WorldZ == <<Zero, Zero, One>>

\* the reference axis: world-Z, world-X when n is parallel to it
reference_axis(n) ==
    IF RGt(RAbs(Dot(n, WorldZ)), RSub(One, Eps)) THEN WorldX ELSE WorldZ

\* B = [u v p0] with v = normalize(n x u), p0 = d n
basis_from_u(n, d, u) ==
    IF Evaluated(u) THEN FromCols(u, normalize(Cross(n, u)), Mul3(d, n)) ELSE <<>>

\* the basis with its first tangent taken along the camera's x axis
_plane_basis_of_pose(e) ==
    basis_from_u(e.plane_normal, e.plane_distance,
                 IF e.yaw = 0
                 THEN normalize(Cross(reference_axis(e.plane_normal), e.plane_normal))
                 ELSE normalize(Cross(e.plane_normal, reference_axis(e.plane_normal))))

\* basis(): u = normalize(r x n) for the reference axis r
_plane_basis(e) ==
    basis_from_u(e.plane_normal, e.plane_distance,
                 normalize(Cross(reference_axis(e.plane_normal), e.plane_normal)))

\* K (R - t n^T / d) B, before canonicalization
H_raw(e) ==
    MatMul(MatMul(K(e),
                  MatSub(R(e), MatScale(Outer(t(e), e.plane_normal), e.plane_distance))),
           _plane_basis(e))

\* canonicalize with the threshold taken inclusively
canonicalize_inclusive(Hr) ==
    IF RGe(RAbs(Hr[3][3]), Eps)
    THEN [m |-> MatScale(Hr, Hr[3][3]), ok |-> TRUE]
    ELSE [m |-> Hr, ok |-> FALSE]

\* divided through by H[2,2] when |H[2,2]| > EPS, else left as it is and singular
canonicalize(Hr) ==
    IF ~Evaluated(Hr) THEN [m |-> Hr, ok |-> FALSE]
    ELSE IF RGt(RAbs(Hr[3][3]), Eps)
    THEN [m |-> MatScale(Hr, Hr[3][3]), ok |-> TRUE]
    ELSE [m |-> Hr, ok |-> FALSE]

\* homography()
homography(e) == canonicalize(H_raw(e))

\* plane_to_uv_matrix(): A maps output UV to plane millimetres
plane_to_uv_matrix(e) ==
    << <<e.out_scale_x_mm_per_uv, Zero, e.out_origin_x_mm>>,
       <<Zero, e.out_scale_y_mm_per_uv, e.out_origin_y_mm>>,
       <<Zero, Zero, One>> >>

\* pixel_to_uv_matrix(width, height, y_up): source pixels to source UV
pixel_to_uv_matrix(width, height, y_up) ==
    IF y_up
    THEN << <<Rat(1, width), Zero, Zero>>, <<Zero, Rat(-1, height), One>>,
            <<Zero, Zero, One>> >>
    ELSE << <<Rat(1, width), Zero, Zero>>, <<Zero, Rat(1, height), Zero>>,
            <<Zero, Zero, One>> >>

\* N^-1 (H A), with the status of H
compose(e, Hc) ==
    [m |-> MatMul(pixel_to_uv_matrix(e.cam_width, e.cam_height, e.y_up_src),
                  MatMul(Hc.m, plane_to_uv_matrix(e))),
     ok |-> Hc.ok]

\* normalized(): M = N^-1 . H . A
normalized(e) == compose(e, homography(e))

\* the divide refused on the threshold itself as well
perspective_divide_inclusive(out) ==
    IF RLe(RAbs(out[3]), Eps)
    THEN [x |-> Zero, y |-> Zero, valid |-> FALSE, w |-> out[3]]
    ELSE [x |-> RDiv(out[1], out[3]), y |-> RDiv(out[2], out[3]), valid |-> TRUE,
          w |-> out[3]]

\* the divide with x and y exchanged
perspective_divide_exchanged(out) ==
    IF RLt(RAbs(out[3]), Eps)
    THEN [x |-> Zero, y |-> Zero, valid |-> FALSE, w |-> out[3]]
    ELSE [x |-> RDiv(out[2], out[3]), y |-> RDiv(out[1], out[3]), valid |-> TRUE,
          w |-> out[3]]

\* map_point(): out = M @ (u, v, 1); valid = false when |w| < EPS, nothing divided
perspective_divide(out) ==
    IF Evaluated(out) /\ RLt(RAbs(out[3]), Eps)
    THEN [x |-> Zero, y |-> Zero, valid |-> FALSE, w |-> out[3]]
    ELSE [x |-> RDiv(out[1], out[3]), y |-> RDiv(out[2], out[3]), valid |-> TRUE,
          w |-> out[3]]

map_point(M, u, v) == perspective_divide(MatVec(M, <<u, v, One>>))

\* validate_test(): the centre mapped by hand
\*   w = center_out_h[2, 0]
\*   if abs(w) > 1e-6: center_out = center_out_h[:2, 0] / w
\*   else:             "SINGULARITY: w ~ 0"
center_mapping(center_out_h) ==
    IF Evaluated(center_out_h) /\ RGt(RAbs(center_out_h[3]), Eps)
    THEN [divided |-> TRUE, x |-> RDiv(center_out_h[1], center_out_h[3]),
          y |-> RDiv(center_out_h[2], center_out_h[3]), w |-> center_out_h[3]]
    ELSE [divided |-> FALSE, x |-> Zero, y |-> Zero, w |-> center_out_h[3]]

validate_test(M) == center_mapping(MatVec(M, <<Rat(1, 2), Rat(1, 2), One>>))

---------------------------------------------------------------------------
(* Homography2: construction and assignment of the input fields *)

\* largest whole camera height (mm) and plane distance (mm) that are assigned
MaxCamZ == 1
MaxDist == 1

\* values the callers assign; the non-positive and zero ones are the invalid inputs
Widths == {0, 2}
Heights == {-1, 2}
Focals == {Zero, I(1)}
Pitches_um == {I(-1000), I(1000)}
CamXYs == {Zero}
CamZs == {Zero, Eps} \cup {I(k) : k \in 1..MaxCamZ}
Rolls == {0}
PitchAngles == {0, 90}
Yaws == {0, 90}
Normals == {<<Zero, Zero, Zero>>, <<Zero, Zero, One>>, <<Zero, Zero, I(2)>>, <<One, Zero, Zero>>}
Distances == {Zero, Rat(1, 10000000), Eps} \cup {I(k) : k \in 1..MaxDist}
ScalesX == {Zero, I(2)}
ScalesY == {I(-2), I(2)}
OriginsX == {I(-1)}
OriginsY == {I(-1), RAdd(I(-1), Rat(1, 10000000))}

\* Homography2(): the fronto-parallel arrangement, camera at the origin
Homography2 ==
    [cam_width |-> 2, cam_height |-> 2,
     focal_length_mm |-> I(1), pixel_pitch_um |-> I(1000),
     camera_x |-> Zero, camera_y |-> Zero, camera_z |-> Zero,
     roll |-> 0, pitch |-> 0, yaw |-> 0,
     plane_normal |-> WorldZ, plane_distance |-> I(1),
     out_scale_x_mm_per_uv |-> I(2), out_scale_y_mm_per_uv |-> I(2),
     out_origin_x_mm |-> I(-1), out_origin_y_mm |-> I(-1),
     y_up_src |-> TRUE]

Accepted(e) == [e |-> e, err |-> "none"]
Rejected(e, why) == [e |-> e, err |-> why]

\* image dimensions must be positive
set_cam_width(e, v) ==
    IF v <= 0 THEN Rejected(e, "InvalidParameter")
    ELSE Accepted([e EXCEPT !.cam_width = v])

set_cam_height(e, v) ==
    IF v <= 0 THEN Rejected(e, "InvalidParameter")
    ELSE Accepted([e EXCEPT !.cam_height = v])

\* focal length and pixel pitch must be positive
set_focal_length_mm(e, v) ==
    IF RLe(v, Zero) THEN Rejected(e, "InvalidParameter")
    ELSE Accepted([e EXCEPT !.focal_length_mm = v])

set_pixel_pitch_um(e, v) ==
    IF RLe(v, Zero) THEN Rejected(e, "InvalidParameter")
    ELSE Accepted([e EXCEPT !.pixel_pitch_um = v])

\* the output scale must be positive
set_out_scale_x_mm_per_uv(e, v) ==
    IF RLe(v, Zero) THEN Rejected(e, "InvalidParameter")
    ELSE Accepted([e EXCEPT !.out_scale_x_mm_per_uv = v])

set_out_scale_y_mm_per_uv(e, v) ==
    IF RLe(v, Zero) THEN Rejected(e, "InvalidParameter")
    ELSE Accepted([e EXCEPT !.out_scale_y_mm_per_uv = v])

\* the plane normal is renormalized whenever set; a zero-length one is rejected
set_plane_normal(e, v) ==
    IF Dot(v, v) = Zero THEN Rejected(e, "InvalidParameter")
    ELSE Accepted([e EXCEPT !.plane_normal = normalize(v)])

\* the distance stored without the check
set_plane_distance_unchecked(e, v) == Accepted([e EXCEPT !.plane_distance = v])

\* |d| < EPS is rejected
set_plane_distance(e, v) ==
    IF RLt(RAbs(v), Eps) THEN Rejected(e, "DegeneratePlane")
    ELSE Accepted([e EXCEPT !.plane_distance = v])

\* the remaining fields take any value
set_camera_x(e, v) == Accepted([e EXCEPT !.camera_x = v])
set_camera_y(e, v) == Accepted([e EXCEPT !.camera_y = v])
set_camera_z(e, v) == Accepted([e EXCEPT !.camera_z = v])
set_roll(e, v) == Accepted([e EXCEPT !.roll = v])
set_pitch(e, v) == Accepted([e EXCEPT !.pitch = v])
set_yaw(e, v) == Accepted([e EXCEPT !.yaw = v])
set_out_origin_x_mm(e, v) == Accepted([e EXCEPT !.out_origin_x_mm = v])
set_out_origin_y_mm(e, v) == Accepted([e EXCEPT !.out_origin_y_mm = v])
set_y_up_src(e, v) == Accepted([e EXCEPT !.y_up_src = v])


---------------------------------------------------------------------------
(* debug_matrix.py: the matrices the script builds by hand *)

\* N_src_inv = [[1/W, 0, 0], [0, -1/H_img, H_img], [0, 0, 1]]
N_src_inv(W, H_img) ==
    << <<Rat(1, W), Zero, Zero>>, <<Zero, Rat(-1, H_img), I(H_img)>>,
       <<Zero, Zero, One>> >>

---------------------------------------------------------------------------
(* The engine driven through its fields and properties *)

\* output UV points the scripts map: the centre and the four corners
Half == Rat(1, 2)
Points == {<<Half, Half>>, <<Zero, Zero>>, <<One, Zero>>, <<One, One>>, <<Zero, One>>}

\* variables of the other components
animVars == <<current_yaw, uniforms, loop, timer, pipeline, pc>>
camVars == <<cfg, heap>>

NoConfig == [made |-> FALSE]
NoEngine == [made |-> FALSE]

\* None where a number is expected
None == <<>>

libVars == <<tail, gst, k1, k2>>

\* no Pipeline built and no calibration session begun
IdleLib ==
    /\ tail = "None"
    /\ gst = [children |-> {}]
    /\ k1 = <<0, 1>>
    /\ k2 = <<0, 1>>
NoHeap == <<>>
Idle == [uniforms |-> [matrix_data |-> <<>>, clamp_uv |-> 0], loop |-> "none", timer |-> FALSE, pipeline |-> "NULL",
         pc |-> "start"]

InitEngine ==
    /\ h = Homography2
    /\ ret = [op |-> "init"]
    /\ current_yaw = 0
    /\ uniforms = Idle.uniforms
    /\ loop = Idle.loop
    /\ timer = Idle.timer
    /\ pipeline = Idle.pipeline
    /\ pc = Idle.pc
    /\ cfg = NoConfig
    /\ h2 = NoEngine
    /\ heap = NoHeap
    /\ IdleLib

\* what a matrix property hands back
Returned(op, r) == [op |-> op, m |-> r.m, ok |-> r.ok]

\* h.<field> = v: the setter's outcome becomes the state
Assign(field, v, r) ==
    /\ h' = r.e
    /\ ret' = [op |-> "set", field |-> field, value |-> v, err |-> r.err]
    /\ UNCHANGED <<h2, animVars, camVars, libVars>>

SetCamWidth == \E v \in Widths : Assign("cam_width", v, set_cam_width(h, v))
SetCamHeight == \E v \in Heights : Assign("cam_height", v, set_cam_height(h, v))
SetFocalLength == \E v \in Focals : Assign("focal_length_mm", v, set_focal_length_mm(h, v))
SetPixelPitch == \E v \in Pitches_um : Assign("pixel_pitch_um", v, set_pixel_pitch_um(h, v))
SetCameraX == \E v \in CamXYs : Assign("camera_x", v, set_camera_x(h, v))
SetCameraY == \E v \in CamXYs : Assign("camera_y", v, set_camera_y(h, v))
SetCameraZ == \E v \in CamZs : Assign("camera_z", v, set_camera_z(h, v))
SetRoll == \E v \in Rolls : Assign("roll", v, set_roll(h, v))
SetPitch == \E v \in PitchAngles : Assign("pitch", v, set_pitch(h, v))
SetYaw == \E v \in Yaws : Assign("yaw", v, set_yaw(h, v))
SetPlaneNormal == \E v \in Normals : Assign("plane_normal", v, set_plane_normal(h, v))
SetPlaneDistance == \E v \in Distances : Assign("plane_distance", v, set_plane_distance(h, v))
SetOutScaleX == \E v \in ScalesX : Assign("out_scale_x_mm_per_uv", v, set_out_scale_x_mm_per_uv(h, v))
SetOutScaleY == \E v \in ScalesY : Assign("out_scale_y_mm_per_uv", v, set_out_scale_y_mm_per_uv(h, v))
SetOutOriginX == \E v \in OriginsX : Assign("out_origin_x_mm", v, set_out_origin_x_mm(h, v))
SetOutOriginY == \E v \in OriginsY : Assign("out_origin_y_mm", v, set_out_origin_y_mm(h, v))
SetYUpSrc == \E v \in BOOLEAN : Assign("y_up_src", v, set_y_up_src(h, v))

\* h.H answered from the matrix built at construction
ReadH_cached ==
    /\ ret' = Returned("H", homography(Homography2))
    /\ UNCHANGED <<h, h2, animVars, camVars, libVars>>

\* h.H
ReadH ==
    /\ ret' = Returned("H", homography(h))
    /\ UNCHANGED <<h, h2, animVars, camVars, libVars>>

\* h.normalized
ReadNormalized ==
    /\ ret' = Returned("normalized", normalized(h))
    /\ UNCHANGED <<h, h2, animVars, camVars, libVars>>

\* M = h.normalized; the point (u, v) mapped through M
MapPointThrough(M) ==
    \E p \in Points :
        /\ ret' = [op |-> "map_point", u |-> p[1], v |-> p[2],
                   out |-> map_point(M, p[1], p[2])]
        /\ UNCHANGED <<h, h2, animVars, camVars, libVars>>

MapPoint == MapPointThrough(normalized(h).m)

\* validate_all_tests.py: M = h.normalized, then the centre through M
ValidateTest ==
    /\ ret' = [op |-> "validate_test", out |-> validate_test(normalized(h).m)]
    /\ UNCHANGED <<h, h2, animVars, camVars, libVars>>

\* debug_matrix.py: a source pixel taken through N_src_inv
PixelToUV ==
    \E x \in {0, h.cam_width}, y \in {0, h.cam_height} :
        /\ ret' = [op |-> "N_src_inv", x |-> x, y |-> y,
                   uv |-> MatVec(N_src_inv(h.cam_width, h.cam_height), <<I(x), I(y), One>>)]
        /\ UNCHANGED <<h, h2, animVars, camVars, libVars>>

NextEngine ==
    \/ SetCamWidth \/ SetCamHeight \/ SetFocalLength \/ SetPixelPitch
    \/ SetCameraX \/ SetCameraY \/ SetCameraZ
    \/ SetRoll \/ SetPitch \/ SetYaw
    \/ SetPlaneNormal \/ SetPlaneDistance
    \/ SetOutScaleX \/ SetOutScaleY \/ SetOutOriginX \/ SetOutOriginY \/ SetYUpSrc
    \/ ReadH \/ ReadNormalized \/ MapPoint \/ ValidateTest \/ PixelToUV

SpecEngine == InitEngine /\ [][NextEngine]_vars

---------------------------------------------------------------------------
(* yaw_rotation_center_stability_test.py: YawRotationTest *)

flatten(M) ==
    <<M[1][1], M[1][2], M[1][3], M[2][1], M[2][2], M[2][3], M[3][1], M[3][2], M[3][3]>>

\* build_uniforms(): M = h.normalized flattened row-major, and clamp_uv = 1
build_uniforms(e) == [matrix_data |-> flatten(normalized(e).m), clamp_uv |-> 1]

\* center_out = center_out_h[:2, 0] / center_out_h[2, 0], divided whatever w is:
\* a zero w gives inf or nan and a warning, and the handler goes on
center_divide(center_out_h) ==
    IF center_out_h[3] = Zero
    THEN [finite |-> FALSE, x |-> Zero, y |-> Zero]
    ELSE [finite |-> TRUE, x |-> RDiv(center_out_h[1], center_out_h[3]),
          y |-> RDiv(center_out_h[2], center_out_h[3])]

center_out(M) == center_divide(MatVec(M, <<Half, Half, One>>))

\* the handler with the uniforms built before the new yaw is assigned
update_uniforms_stale(e, yaw) ==
    [current_yaw |-> (yaw + 5) % 360,
     h |-> set_yaw(e, (yaw + 5) % 360).e,
     uniforms |-> build_uniforms(e),
     center_out |-> center_out(normalized(e).m),
     result |-> TRUE]

\* the handler giving up its timer on a singular composition
update_uniforms_stopping(e, yaw) ==
    [current_yaw |-> (yaw + 5) % 360,
     h |-> set_yaw(e, (yaw + 5) % 360).e,
     uniforms |-> build_uniforms(set_yaw(e, (yaw + 5) % 360).e),
     center_out |-> center_out(normalized(set_yaw(e, (yaw + 5) % 360).e).m),
     result |-> homography(set_yaw(e, (yaw + 5) % 360).e).ok]

\* the second half of update_uniforms(): uniforms rebuilt from the engine and
\* set on warp, the centre mapped, True returned
rebuild(e, yaw) ==
    [current_yaw |-> yaw,
     h |-> e,
     uniforms |-> build_uniforms(e),
     center_out |-> center_out(normalized(e).m),
     result |-> TRUE]

\* the handler with the yaw stepped and never wrapped at 360
update_uniforms_unwrapped(e, yaw) == rebuild(set_yaw(e, yaw + 5).e, yaw + 5)

\* update_uniforms(): current_yaw = (current_yaw + 5.0) % 360.0; h.yaw = current_yaw
update_uniforms(e, yaw) == rebuild(set_yaw(e, (yaw + 5) % 360).e, (yaw + 5) % 360)

\* the window of run() with its origin left at the plane's origin
with_window_uncentered(e, scale) ==
    [e EXCEPT !.out_scale_x_mm_per_uv = scale,
              !.out_scale_y_mm_per_uv = scale,
              !.out_origin_x_mm = Zero,
              !.out_origin_y_mm = Zero,
              !.y_up_src = TRUE]

\* the output window run() derives: out_scale = plane_distance / fx * cam_width,
\* origin = -0.5 * out_scale, y_up_src = True
with_window(e, scale) ==
    [e EXCEPT !.out_scale_x_mm_per_uv = scale,
              !.out_scale_y_mm_per_uv = scale,
              !.out_origin_x_mm = RMul(Rat(-1, 2), scale),
              !.out_origin_y_mm = RMul(Rat(-1, 2), scale),
              !.y_up_src = TRUE]

out_scale(e) == RMul(RDiv(e.plane_distance, K(e)[1][1]), I(e.cam_width))

\* an engine configured as run() does, for a given pitch and plane normal
configured(pitch, normal) ==
    [Homography2 EXCEPT !.cam_width = 720, !.cam_height = 720,
                        !.camera_x = Zero, !.camera_y = Zero, !.camera_z = Zero,
                        !.roll = 0, !.pitch = pitch, !.yaw = 0,
                        !.plane_normal = normal, !.plane_distance = I(4000)]

Rig(e) == with_window(e, out_scale(e))

\* the rig of run(), and a pitched one whose optical axis sweeps through the plane
Rigs == {Rig(configured(0, WorldZ)), Rig(configured(90, WorldX))}

InitAnim ==
    /\ h = NoEngine
    /\ ret = [op |-> "init"]
    /\ current_yaw = 0
    /\ uniforms = Idle.uniforms
    /\ loop = Idle.loop
    /\ timer = Idle.timer
    /\ pipeline = Idle.pipeline
    /\ pc = Idle.pc
    /\ cfg = NoConfig
    /\ h2 = NoEngine
    /\ heap = NoHeap
    /\ IdleLib

\* self.h = Homography2() and the assignments that configure it
RunConfigure ==
    /\ pc = "start"
    /\ \E rig \in Rigs : h' = rig
    /\ pc' = "configured"
    /\ UNCHANGED <<ret, current_yaw, uniforms, loop, timer, pipeline, h2, camVars, libVars>>

\* the pipeline parsed, the shaders set, the initial uniforms set on warp
RunBuildPipeline ==
    /\ pc = "configured"
    /\ uniforms' = build_uniforms(h)
    /\ pc' = "built"
    /\ UNCHANGED <<h, ret, current_yaw, loop, timer, pipeline, h2, camVars, libVars>>

\* GLib.timeout_add(500, self.update_uniforms)
RunAddTimer ==
    /\ pc = "built"
    /\ timer' = TRUE
    /\ pc' = "timed"
    /\ UNCHANGED <<h, ret, current_yaw, uniforms, loop, pipeline, h2, camVars, libVars>>

\* the main loop created, the bus watched, the SIGINT handler installed
RunInstallHandlers ==
    /\ pc = "timed"
    /\ loop' = "created"
    /\ pc' = "handlers"
    /\ UNCHANGED <<h, ret, current_yaw, uniforms, timer, pipeline, h2, camVars, libVars>>

\* pipeline.set_state(Gst.State.PLAYING)
RunPlay ==
    /\ pc = "handlers"
    /\ pipeline' = "PLAYING"
    /\ pc' = "playing"
    /\ UNCHANGED <<h, ret, current_yaw, uniforms, loop, timer, h2, camVars, libVars>>

\* self.loop.run()
RunLoop ==
    /\ pc = "playing"
    /\ loop' = "running"
    /\ pc' = "loop"
    /\ UNCHANGED <<h, ret, current_yaw, uniforms, timer, pipeline, h2, camVars, libVars>>

\* what one call of the timer's handler leaves behind; the source stays
\* scheduled while the handler returns True
Dispatched(r) ==
    /\ current_yaw' = r.current_yaw
    /\ h' = r.h
    /\ uniforms' = r.uniforms
    /\ ret' = [op |-> "update_uniforms", center_out |-> r.center_out]
    /\ timer' = r.result
    /\ UNCHANGED <<loop, pipeline, pc, h2, camVars, libVars>>

\* the 500 ms timeout fires in the running main loop
Tick ==
    /\ loop = "running"
    /\ timer
    /\ Dispatched(update_uniforms(h, current_yaw))

\* on_message(): EOS and ERROR quit the loop, any other message is ignored
OnMessage ==
    /\ loop = "running"
    /\ \E type \in {"EOS", "ERROR", "STATE_CHANGED"} :
          loop' = IF type \in {"EOS", "ERROR"} THEN "quit" ELSE loop
    /\ UNCHANGED <<h, ret, current_yaw, uniforms, timer, pipeline, pc, h2, camVars, libVars>>

\* signal_handler(): pipeline.set_state(NULL); self.loop.quit()
SigInt ==
    /\ pc \in {"handlers", "playing", "loop"}
    /\ pipeline' = "NULL"
    /\ loop' = IF loop = "running" THEN "quit" ELSE loop
    /\ UNCHANGED <<h, ret, current_yaw, uniforms, timer, pc, h2, camVars, libVars>>

\* loop.run() has returned: finally pipeline.set_state(NULL)
RunFinally ==
    /\ pc = "loop"
    /\ loop = "quit"
    /\ pipeline' = "NULL"
    /\ loop' = "done"
    /\ pc' = "done"
    /\ UNCHANGED <<h, ret, current_yaw, uniforms, timer, h2, camVars, libVars>>

NextAnim ==
    \/ RunConfigure \/ RunBuildPipeline \/ RunAddTimer \/ RunInstallHandlers
    \/ RunPlay \/ RunLoop
    \/ Tick \/ OnMessage \/ SigInt \/ RunFinally

SpecAnim == InitAnim /\ [][NextAnim]_vars

\* the step the timeout source takes, told by what it does to current_yaw
TimeoutDispatch ==
    /\ loop = "running"
    /\ timer
    /\ current_yaw' = (current_yaw + 5) % 360

\* the timeout source is dispatched again and again while the loop runs
SpecAnimFair == SpecAnim /\ WF_current_yaw(TimeoutDispatch)

---------------------------------------------------------------------------
(* ground_plane_oblique_test.py, debug_matrix.py: one configured engine and
   the quantities the scripts read from it *)

\* sampled points per output line: np.linspace(0.0, 1.0, 9)
LineSamples == 9

\* the u of the k-th sample
sample_u(k) == Rat(k - 1, LineSamples - 1)

\* the rows the lines are sampled at
SampledRows == {Zero, Half, One}

\* planes tilted about the world X axis and about the world Y axis
TiltedAboutX == <<Zero, Rat(3, 5), Rat(4, 5)>>
TiltedAboutY == <<Rat(3, 5), Zero, Rat(4, 5)>>

\* an engine after its fields were assigned: image size, focal length, camera
\* position, yaw, plane and output window
probe(size, f_mm, position, yaw, normal, window) ==
    [Homography2 EXCEPT !.cam_width = size[1], !.cam_height = size[2],
                        !.focal_length_mm = f_mm,
                        !.camera_x = position[1], !.camera_y = position[2],
                        !.camera_z = position[3],
                        !.yaw = yaw,
                        !.plane_normal = normal, !.plane_distance = I(5),
                        !.out_scale_x_mm_per_uv = window[1],
                        !.out_scale_y_mm_per_uv = window[1],
                        !.out_origin_x_mm = window[2],
                        !.out_origin_y_mm = window[3]]

ProbeConfigs ==
    {probe(size, f_mm, position, yaw, normal, window) :
        size \in {<<2, 2>>, <<4, 2>>},
        f_mm \in {One, I(2)},
        position \in {<<Zero, Zero, Zero>>, <<One, Zero, Zero>>, <<Zero, Zero, I(-1)>>},
        yaw \in {0, 90, 180},
        normal \in {WorldZ, TiltedAboutX, TiltedAboutY},
        window \in {<<I(4), I(-2), Zero>>, <<I(40), I(-20), I(-20)>>}}

InitProbe ==
    /\ h \in ProbeConfigs
    /\ ret = [op |-> "init"]
    /\ current_yaw = 0
    /\ uniforms = Idle.uniforms
    /\ loop = Idle.loop
    /\ timer = Idle.timer
    /\ pipeline = Idle.pipeline
    /\ pc = Idle.pc
    /\ cfg = NoConfig
    /\ h2 = NoEngine
    /\ heap = NoHeap
    /\ IdleLib

\* h.R and h.t
ReadPose ==
    /\ ret' = [op |-> "pose", R |-> R(h), t |-> t(h)]
    /\ UNCHANGED <<h, h2, animVars, camVars, libVars>>

\* h.K, with the focal length in pixels and the principal point
ReadIntrinsics ==
    /\ ret' = [op |-> "intrinsics", focal_length_px |-> focal_length_px(h),
               principal_point |-> principal_point(h), K |-> K(h)]
    /\ UNCHANGED <<h, h2, animVars, camVars, libVars>>

\* the output line at row v taken through M, sample by sample
sample_line(M, v) == [k \in 1..LineSamples |-> map_point(M, sample_u(k), v)]

LineSampled(v, M) ==
    /\ ret' = [op |-> "line", v |-> v, out |-> sample_line(M, v)]
    /\ UNCHANGED <<h, h2, animVars, camVars, libVars>>

\* M = h.normalized; for x in np.linspace(0.0, 1.0, 9): M @ (x, v, 1), divided
SampleLine == \E v \in SampledRows : LineSampled(v, normalized(h).m)

NextProbe == ReadPose \/ ReadIntrinsics \/ SampleLine

SpecProbe == InitProbe /\ [][NextProbe]_vars

---------------------------------------------------------------------------
(* validate_all_tests.py: several engines side by side *)

\* the instances a script holds: h is the first, h2 the second
Instances == {1, 2}

\* the i-th of a pair of instances
instance(pair, i) == pair[i]

\* the instances after an assignment on the i-th, with the fields of an
\* instance kept on the class and so seen by every instance
assigned_on_class(pair, i, e) == <<e, e>>

\* the instances after an assignment on the i-th took it to e: the fields are
\* the instance's own
assigned(pair, i, e) == [pair EXCEPT ![i] = e]

\* values assigned on either instance
PairCamXs == {Zero, One}
PairYaws == {0, 90}
PairNormals == {<<Zero, Zero, Zero>>, <<Zero, Zero, One>>, <<Zero, I(3), I(4)>>}
PairDistances == {Zero, I(1), I(5)}

\* h1 = Homography2(); h2 = Homography2()
InitPair ==
    /\ h = Homography2
    /\ h2 = Homography2
    /\ ret = [op |-> "init"]
    /\ current_yaw = 0
    /\ uniforms = Idle.uniforms
    /\ loop = Idle.loop
    /\ timer = Idle.timer
    /\ pipeline = Idle.pipeline
    /\ pc = Idle.pc
    /\ cfg = NoConfig
    /\ heap = NoHeap
    /\ IdleLib

\* the pair after the assignment becomes the state
Assigned(i, field, v, err, pair) ==
    /\ h' = pair[1]
    /\ h2' = pair[2]
    /\ ret' = [op |-> "set", instance |-> i, field |-> field, value |-> v, err |-> err]
    /\ UNCHANGED <<animVars, camVars, libVars>>

\* h<i>.<field> = v
AssignOn(i, field, v, r) == Assigned(i, field, v, r.err, assigned(<<h, h2>>, i, r.e))

PairSetCameraX ==
    \E i \in Instances, v \in PairCamXs :
        AssignOn(i, "camera_x", v, set_camera_x(instance(<<h, h2>>, i), v))

PairSetYaw ==
    \E i \in Instances, v \in PairYaws :
        AssignOn(i, "yaw", v, set_yaw(instance(<<h, h2>>, i), v))

PairSetPlaneNormal ==
    \E i \in Instances, v \in PairNormals :
        AssignOn(i, "plane_normal", v, set_plane_normal(instance(<<h, h2>>, i), v))

PairSetPlaneDistance ==
    \E i \in Instances, v \in PairDistances :
        AssignOn(i, "plane_distance", v, set_plane_distance(instance(<<h, h2>>, i), v))

\* what a read of the plane basis and of the matrices hands back
Read(i, e) ==
    /\ ret' = [op |-> "read", instance |-> i,
               plane_normal |-> e.plane_normal, plane_distance |-> e.plane_distance,
               B |-> _plane_basis(e), H |-> homography(e), M |-> normalized(e)]
    /\ UNCHANGED <<h, h2, animVars, camVars, libVars>>

\* h<i>._plane_basis(), h<i>.H, h<i>.normalized
PairRead == \E i \in Instances : Read(i, instance(<<h, h2>>, i))

NextPair ==
    \/ PairSetCameraX \/ PairSetYaw \/ PairSetPlaneNormal \/ PairSetPlaneDistance
    \/ PairRead

SpecPair == InitPair /\ [][NextPair]_vars

---------------------------------------------------------------------------
(* gpt_shader.py, shader_debug.py, test_rotate.py: a 3x3 matrix marshalled
   into the "uniforms" structure of the glshader element *)

\* digits after the point in f"{x:.9f}"
DecimalPlaces == 9

\* bits in the significand of a GObject.TYPE_FLOAT, an IEEE single
FloatBits == 24

RECURSIVE Pow(_, _)
Pow(b, n) == IF n = 0 THEN 1 ELSE b * Pow(b, n - 1)

\* m and r after n more digits in the given base of r/d were moved into m
RECURSIVE Expand(_, _, _, _, _)
Expand(m, r, d, base, n) ==
    IF n = 0 THEN <<m, r>>
    ELSE Expand(m * base + (r * base) \div d, (r * base) % d, d, base, n - 1)

\* m rounded half to even by the remainder r of a division by d
RoundHalfEven(m, r, d) ==
    IF 2 * r > d \/ (2 * r = d /\ m % 2 = 1) THEN m + 1 ELSE m

\* |x| with n digits in the given base after the point, rounded half to even
Rounded(x, base, n) ==
    RoundHalfEven(Expand(Abs(x[1]) \div x[2], Abs(x[1]) % x[2], x[2], base, n)[1],
                  Expand(Abs(x[1]) \div x[2], Abs(x[1]) % x[2], x[2], base, n)[2],
                  x[2])

\* the number the text f"{x:.9f}" denotes
format_9f(x) ==
    Rat((IF x[1] < 0 THEN -1 ELSE 1) * Rounded(x, 10, DecimalPlaces), Pow(10, DecimalPlaces))

\* binary digits after the point that a significand of FloatBits bits leaves to
\* n/d, for 2^-6 <= n/d < 2; f digits are left when n/d was doubled f + 1 -
\* FloatBits times
RECURSIVE FractionBits(_, _, _)
FractionBits(n, d, f) ==
    IF n >= d \/ f = FloatBits + 5 THEN f ELSE FractionBits(2 * n, d, f + 1)

\* float(val) stored as a GObject.TYPE_FLOAT: x rounded to single precision
to_float(x) ==
    IF x[1] = 0 THEN Zero
    ELSE Rat((IF x[1] < 0 THEN -1 ELSE 1)
                 * Rounded(x, 2, FractionBits(Abs(x[1]), x[2], FloatBits - 1)),
             Pow(2, FractionBits(Abs(x[1]), x[2], FloatBits - 1)))

transpose(M) == <<Col(M, 1), Col(M, 2), Col(M, 3)>>

\* gpt_shader.py uniforms_from_mat3(): M.T.flatten(), each value written as
\* text with nine decimals, clamp_uv true
uniforms_from_mat3(M) ==
    [matrix_data |-> [k \in 1..9 |-> format_9f(flatten(transpose(M))[k])], clamp_uv |-> 1]

\* shader_debug.py create_mat3_uniform_structure(): matrix.T.flatten(), the
\* fields m00 .. m22 set in that order as floats, clamp_uv 0
create_mat3_uniform_structure(matrix) ==
    [matrix_data |-> [k \in 1..9 |-> to_float(flatten(transpose(matrix))[k])], clamp_uv |-> 0]

\* test_rotate.py create_mat3_uniform_structure(): matrix.flatten(), the fields
\* m00 .. m22 set in that order as floats, clamp_uv 0
test_rotate_create_mat3_uniform_structure(matrix) ==
    [matrix_data |-> [k \in 1..9 |-> to_float(flatten(matrix)[k])], clamp_uv |-> 0]

\* gpt_shader.py rotate_about_center(): T_back @ R @ T_to, the angle in degrees
rotate_about_center(deg) ==
    MatMul(MatMul(<< <<One, Zero, Half>>, <<Zero, One, Half>>, <<Zero, Zero, One>> >>,
                  Rz(deg)),
           << <<One, Zero, RNeg(Half)>>, <<Zero, One, RNeg(Half)>>, <<Zero, Zero, One>> >>)

\* the matrices handed to the marshalling functions
ShaderMatrices == {rotate_about_center(5 * k) : k \in 0..71}

InitShader ==
    /\ ret \in {[op |-> "init", matrix |-> M] : M \in ShaderMatrices}
    /\ uniforms = Idle.uniforms
    /\ h = NoEngine
    /\ h2 = NoEngine
    /\ current_yaw = 0
    /\ loop = Idle.loop
    /\ timer = Idle.timer
    /\ pipeline = Idle.pipeline
    /\ pc = Idle.pc
    /\ cfg = NoConfig
    /\ heap = NoHeap
    /\ IdleLib

\* warp.set_property("uniforms", s) with the structure s a function built
Marshalled(op, s) ==
    /\ uniforms' = s
    /\ ret' = [op |-> op, matrix |-> ret.matrix]
    /\ UNCHANGED <<h, h2, current_yaw, loop, timer, pipeline, pc, camVars, libVars>>

GptShaderUniforms == Marshalled("gpt_shader.uniforms_from_mat3", uniforms_from_mat3(ret.matrix))

ShaderDebugUniforms ==
    Marshalled("shader_debug.create_mat3_uniform_structure",
               create_mat3_uniform_structure(ret.matrix))

TestRotateUniforms ==
    Marshalled("test_rotate.create_mat3_uniform_structure",
               test_rotate_create_mat3_uniform_structure(ret.matrix))

NextShader == GptShaderUniforms \/ ShaderDebugUniforms \/ TestRotateUniforms

SpecShader == InitShader /\ [][NextShader]_vars

---------------------------------------------------------------------------
(* 2eyes.py, i_can_see.py, frontoparallel_identity_test.py and the other
   scripts that start a pipeline and run a main loop *)

RunnerScripts ==
    {"2eyes", "rtp_server", "i_can_see", "shader_debug", "frontoparallel_identity_test",
     "ground_plane_oblique_test", "gpt_shader"}

\* signal.signal(signal.SIGINT, handler) before the pipeline is started
installs_sigint_handler(script) ==
    script \in {"2eyes", "rtp_server", "frontoparallel_identity_test",
                "ground_plane_oblique_test"}

\* loop.run() stands in a try with except KeyboardInterrupt
catches_keyboard_interrupt(script) == script = "gpt_shader"

\* the script leaves with sys.exit(1) when set_state(PLAYING) returns FAILURE
exits_on_failure(script) == script \in {"2eyes", "rtp_server", "i_can_see"}

\* bus messages: their type, and for STATE_CHANGED their source and new state
BusMessages ==
    {[type |-> type, src |-> "pipeline", new |-> "NULL"] :
        type \in {"EOS", "ERROR", "WARNING"}}
        \cup {[type |-> "STATE_CHANGED", src |-> s, new |-> n] :
                 s \in {"pipeline", "warp"}, n \in {"READY", "PAUSED", "PLAYING"}}

\* on_bus_message() / on_message(): EOS and ERROR quit the loop; 2eyes.py
\* prints when the pipeline itself has reached PLAYING
on_message(script, message, running) ==
    [loop |-> IF message.type \in {"EOS", "ERROR"} THEN "quit" ELSE running,
     printed |-> /\ script \in {"2eyes", "rtp_server"}
                 /\ message.type = "STATE_CHANGED"
                 /\ message.src = "pipeline"
                 /\ message.new = "PLAYING"]

InitRunner ==
    /\ ret \in {[op |-> "init", script |-> s] : s \in RunnerScripts}
    /\ pc = "start"
    /\ loop = "none"
    /\ pipeline = "NULL"
    /\ timer = FALSE
    /\ current_yaw = 0
    /\ uniforms = Idle.uniforms
    /\ h = NoEngine
    /\ h2 = NoEngine
    /\ cfg = NoConfig
    /\ heap = NoHeap
    /\ IdleLib

\* pipeline.set_state(Gst.State.PLAYING), the main loop created
RunnerPlay ==
    /\ pc = "start"
    /\ \E result \in {"SUCCESS", "ASYNC", "FAILURE"} :
          /\ pipeline' = IF result = "FAILURE" THEN "READY" ELSE "PLAYING"
          /\ pc' = IF result = "FAILURE" /\ exits_on_failure(ret.script)
                   THEN "exited" ELSE "playing"
          /\ ret' = [op |-> "set_state", script |-> ret.script, result |-> result]
    /\ loop' = "created"
    /\ UNCHANGED <<h, h2, current_yaw, uniforms, timer, camVars, libVars>>

\* loop.run()
RunnerLoop ==
    /\ pc = "playing"
    /\ loop' = "running"
    /\ pc' = "loop"
    /\ ret' = [op |-> "run", script |-> ret.script]
    /\ UNCHANGED <<h, h2, current_yaw, uniforms, timer, pipeline, camVars, libVars>>

\* a message on the bus, dispatched to the script's handler by the running loop
RunnerMessage ==
    /\ loop = "running"
    /\ \E message \in BusMessages :
          /\ loop' = on_message(ret.script, message, loop).loop
          /\ ret' = [op |-> "message", script |-> ret.script, type |-> message.type,
                     printed |-> on_message(ret.script, message, loop).printed]
    /\ UNCHANGED <<h, h2, current_yaw, uniforms, timer, pipeline, pc, camVars, libVars>>

\* the script goes on after Ctrl-C: its handler ran, or the KeyboardInterrupt
\* came out of loop.run() inside the try that catches it
survives_sigint(script, at) ==
    installs_sigint_handler(script) \/ (catches_keyboard_interrupt(script) /\ at = "loop")

\* Ctrl-C: the script's handler sets the pipeline to NULL and quits the loop;
\* with no handler installed the loop is quit and Python raises
\* KeyboardInterrupt, out of loop.run() too, and the script ends there unless
\* it catches it
RunnerSigInt ==
    /\ pc \in {"playing", "loop"}
    /\ pipeline' = IF installs_sigint_handler(ret.script) THEN "NULL" ELSE pipeline
    /\ loop' = IF loop = "running" THEN "quit" ELSE loop
    /\ pc' = IF survives_sigint(ret.script, pc) THEN pc ELSE "killed"
    /\ ret' = [op |-> "SIGINT", script |-> ret.script]
    /\ UNCHANGED <<h, h2, current_yaw, uniforms, timer, camVars, libVars>>

\* loop.run() has returned: pipeline.set_state(Gst.State.NULL)
RunnerFinish ==
    /\ pc = "loop"
    /\ loop = "quit"
    /\ pipeline' = "NULL"
    /\ loop' = "done"
    /\ pc' = "done"
    /\ ret' = [op |-> "finish", script |-> ret.script]
    /\ UNCHANGED <<h, h2, current_yaw, uniforms, timer, camVars, libVars>>

NextRunner == RunnerPlay \/ RunnerLoop \/ RunnerMessage \/ RunnerSigInt \/ RunnerFinish

SpecRunner == InitRunner /\ [][NextRunner]_vars

---------------------------------------------------------------------------
(* tools/calibrate_distortion.py: interactive_calibration *)

\* k1 and k2 stay within this many hundredths of zero in a session
MaxK1Hundredths == 30

MaxK2Hundredths == 6

\* the lines typed at the prompt, character by character
InputLines ==
    {<<>>,
     <<" ", " ">>,
     <<"+", "+">>,
     <<"+">>,
     <<"-", "-">>,
     <<"-">>,
     <<"k", "2", "+", "+">>,
     <<"k", "2", "+">>,
     <<"k", "2", "-", "-">>,
     <<"k", "2", "-">>,
     <<"K", "2", "+", "+">>,
     <<" ", "+", " ">>,
     <<"s", "e", "t", " ", "-", "0", ".", "2", "5">>,
     <<"s", "e", "t", " ", "0", ".", "1", " ", "0", ".", "3">>,
     <<"S", "E", "T", " ", ".", "3">>,
     <<"s", "e", "t", " ", "a", "b", "c">>,
     <<"s", "e", "t", " ", "-">>,
     <<"s", "e", "t", " ", "1", ".", "2", ".", "3">>,
     <<"s", "e", "t">>,
     <<"r">>,
     <<"r", "e", "s", "e", "t">>,
     <<"R">>,
     <<"h">>,
     <<"h", "e", "l", "p">>,
     <<"p">>,
     <<"p", "r", "i", "n", "t">>,
     <<"g">>,
     <<"g", "u", "i", "d", "e">>,
     <<"s">>,
     <<"s", "a", "v", "e">>,
     <<"x">>,
     <<"q">>,
     <<"q", "u", "i", "t">>,
     <<"e", "x", "i", "t">>}

\* str.lower() on the letters the lines hold
lower_char(c) ==
    CASE c = "K" -> "k" [] c = "R" -> "r" [] c = "S" -> "s" [] c = "E" -> "e"
      [] c = "T" -> "t" [] c = "P" -> "p" [] c = "H" -> "h" [] OTHER -> c

lower(s) == [i \in 1..Len(s) |-> lower_char(s[i])]

\* str.strip() of blanks
RECURSIVE strip(_)
strip(s) ==
    IF s = <<>> THEN s
    ELSE IF Head(s) = " " THEN strip(Tail(s))
    ELSE IF s[Len(s)] = " " THEN strip(SubSeq(s, 1, Len(s) - 1))
    ELSE s

\* str.split(): the words between runs of blanks
RECURSIVE split_from(_, _, _)
split_from(s, word, words) ==
    IF s = <<>> THEN IF word = <<>> THEN words ELSE Append(words, word)
    ELSE IF Head(s) = " "
    THEN split_from(Tail(s), <<>>, IF word = <<>> THEN words ELSE Append(words, word))
    ELSE split_from(Tail(s), Append(word, Head(s)), words)

split(s) == split_from(s, <<>>, <<>>)

startswith(s, prefix) == Len(s) >= Len(prefix) /\ SubSeq(s, 1, Len(prefix)) = prefix

Digits == {"0", "1", "2", "3", "4", "5", "6", "7", "8", "9"}

digit(c) ==
    CASE c = "0" -> 0 [] c = "1" -> 1 [] c = "2" -> 2 [] c = "3" -> 3 [] c = "4" -> 4
      [] c = "5" -> 5 [] c = "6" -> 6 [] c = "7" -> 7 [] c = "8" -> 8 [] c = "9" -> 9

\* the digits and the one point of a decimal numeral read from the left: the
\* digits as an integer and the number of them after the point, or an error
RECURSIVE numeral(_, _, _, _)
numeral(s, value, places, seen) ==
    IF s = <<>>
    THEN IF seen = "none" THEN [err |-> TRUE]
         ELSE [err |-> FALSE, value |-> Rat(value, Pow(10, places))]
    ELSE IF Head(s) \in Digits
    THEN numeral(Tail(s), 10 * value + digit(Head(s)),
                 IF places >= 0 THEN places + 1 ELSE places, "digit")
    ELSE IF Head(s) = "." /\ places < 0
    THEN numeral(Tail(s), value, 0, seen)
    ELSE [err |-> TRUE]

\* float(word) for decimal numerals with an optional sign; ValueError otherwise
float(word) ==
    IF word # <<>> /\ Head(word) \in {"-", "+"}
    THEN IF numeral(Tail(word), 0, -1, "none").err THEN [err |-> TRUE]
         ELSE [err |-> FALSE,
               value |-> IF Head(word) = "-"
                         THEN RNeg(numeral(Tail(word), 0, -1, "none").value)
                         ELSE numeral(Tail(word), 0, -1, "none").value]
    ELSE numeral(word, 0, -1, "none")

\* a step that moves both coefficients
stepped_both(k, which, delta) ==
    [k1 |-> RAdd(k.k1, delta), k2 |-> RAdd(k.k2, delta), out |-> which, quit |-> FALSE]

\* k1 += delta or k2 += delta, and the new value printed
stepped(k, which, delta) ==
    [k1 |-> IF which = "k1" THEN RAdd(k.k1, delta) ELSE k.k1,
     k2 |-> IF which = "k2" THEN RAdd(k.k2, delta) ELSE k.k2,
     out |-> which, quit |-> FALSE]

\* a command that prints, saves or does nothing
kept(k, out) == [k1 |-> k.k1, k2 |-> k.k2, out |-> out, quit |-> out = "Exiting"]

\* "set <value>": val = float(cmd.split()[1]); k1 = val, or "Invalid value"
\* on IndexError and ValueError
set_k1(k, cmd) ==
    IF Len(split(cmd)) < 2 \/ float(split(cmd)[2]).err THEN kept(k, "Invalid value")
    ELSE [k1 |-> float(split(cmd)[2]).value, k2 |-> k.k2, out |-> "k1", quit |-> FALSE]

\* the body of the while loop for a command cmd, stripped and in lower case
command(k, cmd) ==
    IF cmd = <<>> THEN kept(k, "")
    ELSE IF cmd \in {<<"q">>, <<"q", "u", "i", "t">>, <<"e", "x", "i", "t">>}
    THEN kept(k, "Exiting")
    ELSE IF cmd \in {<<"h">>, <<"h", "e", "l", "p">>} THEN kept(k, "Commands")
    ELSE IF cmd = <<"+", "+">> THEN stepped(k, "k1", Rat(5, 100))
    ELSE IF cmd = <<"+">> THEN stepped(k, "k1", Rat(1, 100))
    ELSE IF cmd = <<"-", "-">> THEN stepped(k, "k1", Rat(-5, 100))
    ELSE IF cmd = <<"-">> THEN stepped(k, "k1", Rat(-1, 100))
    ELSE IF cmd = <<"k", "2", "+", "+">> THEN stepped(k, "k2", Rat(5, 100))
    ELSE IF cmd = <<"k", "2", "+">> THEN stepped(k, "k2", Rat(1, 100))
    ELSE IF cmd = <<"k", "2", "-", "-">> THEN stepped(k, "k2", Rat(-5, 100))
    ELSE IF cmd = <<"k", "2", "-">> THEN stepped(k, "k2", Rat(-1, 100))
    ELSE IF startswith(cmd, <<"s", "e", "t", " ">>) THEN set_k1(k, cmd)
    ELSE IF cmd \in {<<"r">>, <<"r", "e", "s", "e", "t">>}
    THEN [k1 |-> Rat(-2, 10), k2 |-> Zero, out |-> "Reset", quit |-> FALSE]
    ELSE IF cmd \in {<<"s">>, <<"s", "a", "v", "e">>} THEN kept(k, "Saved")
    ELSE IF cmd \in {<<"p">>, <<"p", "r", "i", "n", "t">>} THEN kept(k, "Current values")
    ELSE IF cmd \in {<<"g">>, <<"g", "u", "i", "d", "e">>} THEN kept(k, "Guide")
    ELSE kept(k, "Unknown command")

\* cmd = input(...).strip().lower(), and the command carried out
entered(k, line) == command(k, lower(strip(line)))

within(x, hundredths) == RLe(RAbs(x), Rat(hundredths, 100))

\* k1 = current_k1; k2 = current_k2, from the environment or the defaults
InitDistortion ==
    /\ k1 \in {Rat(-2, 10), Rat(-3, 10)}
    /\ k2 = Zero
    /\ pc = "input"
    /\ ret = [op |-> "init"]
    /\ tail = "None"
    /\ gst = [children |-> {}]
    /\ h = NoEngine
    /\ h2 = NoEngine
    /\ current_yaw = 0
    /\ uniforms = Idle.uniforms
    /\ loop = Idle.loop
    /\ timer = Idle.timer
    /\ pipeline = Idle.pipeline
    /\ cfg = NoConfig
    /\ heap = NoHeap

\* what one line at the prompt leaves behind
Entered(line, r) ==
    /\ within(r.k1, MaxK1Hundredths) /\ within(r.k2, MaxK2Hundredths)
    /\ k1' = r.k1
    /\ k2' = r.k2
    /\ pc' = IF r.quit THEN "done" ELSE "input"
    /\ ret' = [op |-> "command", cmd |-> lower(strip(line)), out |-> r.out]
    /\ UNCHANGED <<h, h2, current_yaw, uniforms, loop, timer, pipeline, camVars, tail, gst>>

\* one pass of the while loop
EnterLine ==
    /\ pc = "input"
    /\ \E line \in InputLines : Entered(line, entered([k1 |-> k1, k2 |-> k2], line))

\* Ctrl-C at the prompt: the values are saved and the loop is left
InterruptPrompt ==
    /\ pc = "input"
    /\ pc' = "done"
    /\ ret' = [op |-> "KeyboardInterrupt", cmd |-> <<>>, out |-> "Saved"]
    /\ UNCHANGED <<h, h2, current_yaw, uniforms, loop, timer, pipeline, camVars, libVars>>

NextDistortion == EnterLine \/ InterruptPrompt

SpecDistortion == InitDistortion /\ [][NextDistortion]_vars

---------------------------------------------------------------------------
(* pylib/gstreamer.py: Pipeline *)

\* walk_pattern(): the value of pattern + 1 at which EOS is sent instead
EosPattern == 23

\* request pads one tee or mixer is asked for in a run
MaxPads == 2

\* EOS events sent to the pipeline in a run
MaxEvents == 2

\* the elements of a run: a test source (no sink pad), a caps filter, a mixer
\* (sink pads on request), a sink (no src pad); a tee has src pads on request
Elements == {"left_eye", "left caps", "mk", "stream_sink"}

\* element.src: a static pad, a pad requested at each read (Tee), or None
src_pad(element) ==
    IF element = "stream_sink" THEN "None" ELSE IF element = "tee" THEN "request" ELSE "static"

\* element.sink: a static pad, a pad requested at each read (MxPipe), or None
sink_pad(element) ==
    IF element = "left_eye" THEN "None" ELSE IF element = "mk" THEN "request" ELSE "static"

\* the values the pattern of the test source starts at
PatternStarts == {20, 22}

\* Gst.Pipeline.new(name), with the pattern the test source was given
NewGst(pattern) ==
    [children |-> {}, links |-> <<>>, pads |-> [e \in {"tee", "mk"} |-> 0],
     pattern |-> pattern, eos |-> 0]

\* the Element wrappers before any is added: element.pipeline = None
NewElements == [e \in Elements |-> [pipeline |-> "None"]]

\* the pad a read of element.src or element.sink requests, if it requests one
requested(g, element, pad) ==
    IF pad = "request" THEN [g EXCEPT !.pads[element] = @ + 1] ELSE g

\* a static pad that has a peer already
src_linked(g, element) ==
    src_pad(element) = "static" /\ \E i \in 1..Len(g.links) : g.links[i][1] = element

sink_linked(g, element) ==
    sink_pad(element) = "static" /\ \E i \in 1..Len(g.links) : g.links[i][2] = element

\* Gst.Pad.link(): both pads free and the caps compatible
pad_link(g, from, to, caps_ok) ==
    IF src_linked(g, from) \/ sink_linked(g, to) THEN "WAS_LINKED"
    ELSE IF caps_ok THEN "OK" ELSE "NOFORMAT"

Raised(p, why) == [p EXCEPT !.err = why]

\* Pipeline.add(): self.pipeline.add(element.element); element.pipeline =
\* self.pipeline; self.tail = element
add(p, element) ==
    [p EXCEPT !.gst.children = @ \cup {element},
              !.heap[element].pipeline = "pipeline",
              !.tail = element]

\* the link made, and self.tail = element
linked(p, element) ==
    [p EXCEPT !.gst.links = Append(@, <<p.tail, element>>), !.tail = element]

\* Pipeline.link(): self.tail.src is read, then element.sink, then the pads
\* are linked; any result other than OK raises RuntimeError
link(p, element, caps_ok) ==
    IF p.heap[element].pipeline = "None" THEN Raised(p, "RuntimeError")
    ELSE IF src_pad(p.tail) = "None" THEN Raised(p, "AttributeError")
    ELSE IF sink_pad(element) = "None"
    THEN Raised([p EXCEPT !.gst = requested(@, p.tail, src_pad(p.tail))], "TypeError")
    ELSE IF pad_link(p.gst, p.tail, element, caps_ok) # "OK"
    THEN Raised([p EXCEPT !.gst = requested(requested(@, p.tail, src_pad(p.tail)),
                                            element, sink_pad(element))],
                "RuntimeError")
    ELSE linked([p EXCEPT !.gst = requested(requested(@, p.tail, src_pad(p.tail)),
                                            element, sink_pad(element))],
                element)

\* append() without self.tail = tail after the add
append_without_restore(p, element, caps_ok) ==
    IF p.tail = "None" THEN add(p, element) ELSE link(add(p, element), element, caps_ok)

\* Pipeline.append(): add alone on an empty Pipeline; else add, put the tail
\* back and link
append(p, element, caps_ok) ==
    IF p.tail = "None" THEN add(p, element)
    ELSE link([add(p, element) EXCEPT !.tail = p.tail], element, caps_ok)

\* walk_pattern() setting the property before it looks at the value
walk_pattern_setting_first(p, name) ==
    IF name \notin p.gst.children \/ name # "left_eye"
    THEN [p |-> Raised(p, "AttributeError"), value |-> None]
    ELSE IF p.gst.pattern + 1 = EosPattern
    THEN [p |-> [p EXCEPT !.gst.eos = @ + 1, !.gst.pattern = @ + 1], value |-> None]
    ELSE [p |-> [p EXCEPT !.gst.pattern = @ + 1], value |-> I(p.gst.pattern + 1)]

\* Pipeline.walk_pattern(): the named element's pattern raised by one, or EOS
\* sent and None returned when that would be EosPattern
walk_pattern(p, name) ==
    IF name \notin p.gst.children \/ name # "left_eye"
    THEN [p |-> Raised(p, "AttributeError"), value |-> None]
    ELSE IF p.gst.pattern + 1 = EosPattern
    THEN [p |-> [p EXCEPT !.gst.eos = @ + 1], value |-> None]
    ELSE [p |-> [p EXCEPT !.gst.pattern = @ + 1], value |-> I(p.gst.pattern + 1)]

\* the Pipeline object with the objects it reaches
pl == [tail |-> tail, gst |-> gst, heap |-> heap, err |-> "none"]

\* pl = g.Pipeline()
InitPipe ==
    /\ tail = "None"
    /\ gst \in {NewGst(pattern) : pattern \in PatternStarts}
    /\ heap = NewElements
    /\ ret = [op |-> "init"]
    /\ h = NoEngine
    /\ h2 = NoEngine
    /\ current_yaw = 0
    /\ uniforms = Idle.uniforms
    /\ loop = Idle.loop
    /\ timer = Idle.timer
    /\ pipeline = Idle.pipeline
    /\ pc = Idle.pc
    /\ cfg = NoConfig
    /\ k1 = Zero
    /\ k2 = Zero

\* what a call on pl leaves behind
Called(op, element, p, value) ==
    /\ tail' = p.tail
    /\ gst' = p.gst
    /\ heap' = p.heap
    /\ ret' = [op |-> op, element |-> element, err |-> p.err, value |-> value]
    /\ UNCHANGED <<h, h2, animVars, cfg, k1, k2>>

\* pl.append(element)
PipeAppend ==
    \E element \in Elements, caps_ok \in BOOLEAN :
        /\ \A e \in {"tee", "mk"} : gst.pads[e] < MaxPads
        /\ Called("append", element, append(pl, element, caps_ok), "self")

\* pl.add(element)
PipeAdd == \E element \in Elements : Called("add", element, add(pl, element), "self")

\* pl.tail = an element built before
PipeSetTail ==
    \E element \in gst.children :
        Called("tail", element, [pl EXCEPT !.tail = element], "None")

\* pl.walk_pattern(name)
WalkPattern ==
    \E name \in Elements :
        /\ gst.eos < MaxEvents
        /\ Called("walk_pattern", name, walk_pattern(pl, name).p,
                  walk_pattern(pl, name).value)

NextPipe == PipeAppend \/ PipeAdd \/ PipeSetTail \/ WalkPattern

SpecPipe == InitPipe /\ [][NextPipe]_vars

\* walk_pattern is called again and again on the test source once it is added
WalkTestSource ==
    /\ "left_eye" \in gst.children
    /\ gst.eos < MaxEvents
    /\ Called("walk_pattern", "left_eye", walk_pattern(pl, "left_eye").p,
              walk_pattern(pl, "left_eye").value)

SpecPipeFair == SpecPipe /\ WF_vars(WalkTestSource)

---------------------------------------------------------------------------
(* pylib/camera_config.py: CameraConfig *)

MaxPixels == 2

\* None where a list is expected
NoList == "None"

\* arguments the callers pass; None takes the default
FocalArgs == {None, I(-1)}
ResolutionArgs == {None, <<0, 720>>, <<1280, -1>>}
PanArgs == {45}
ReferencePixels == {Zero, I(800)}
ReferenceMeters == {Zero, Rat(3, 2)}
PixelDistances == {I(k) : k \in 0..MaxPixels}
CameraSides == {"left", "right", "top"}

\* the list objects of a run, told apart by identity: the two lists a caller
\* passes to set_calibrated_homography, a list that is too short, the lists
\* json.load builds from the calibration file, and the list the geometric
\* branch of compute_homography_matrix builds; each with its first contents
NoLists ==
    [l \in {"left_arg", "right_arg", "short_arg", "file_left", "file_right", "computed"} |->
        IF l = "left_arg"
        THEN <<One, Zero, Zero, Zero, One, Zero, Rat(1, 4), Zero, One>>
        ELSE IF l = "right_arg"
        THEN <<One, Zero, Zero, Zero, One, Zero, Rat(-1, 4), Zero, One>>
        ELSE IF l = "short_arg" THEN <<One, Zero, Zero>>
        ELSE <<>>]

\* what config/camera_calibration.json may hold: nothing (no file), the left
\* matrix alone, both matrices, both matrices and the scale
CalibrationFiles ==
    {[left_homography |-> None, right_homography |-> None, meters_per_pixel |-> None],
     [left_homography |-> <<One, Zero, Zero, Zero, One, Zero, Rat(1, 2), Zero, One>>,
      right_homography |-> None, meters_per_pixel |-> None],
     [left_homography |-> <<One, Zero, Zero, Zero, One, Zero, Rat(1, 2), Zero, One>>,
      right_homography |-> <<One, Zero, Zero, Zero, One, Zero, Rat(-1, 2), Zero, One>>,
      meters_per_pixel |-> None],
     [left_homography |-> <<One, Zero, Zero, Zero, One, Zero, Rat(1, 2), Zero, One>>,
      right_homography |-> <<One, Zero, Zero, Zero, One, Zero, Rat(-1, 2), Zero, One>>,
      meters_per_pixel |-> Rat(1, 400)]}

\* x if x is not None else the default
or_default(x, default) == IF x = None THEN default ELSE x

\* the truth value of an attribute that is None or a list: a non-empty list
truthy(lists, x) == x # NoList /\ Len(lists[x]) > 0

\* _load_calibration_file(): each key found in the file is stored; the
\* calibrated matrices are put to use only when both of them are there
_load_calibration_file(c, cal_data) ==
    [c EXCEPT
       !._calibrated_left_homography =
           IF cal_data.left_homography # None THEN "file_left" ELSE NoList,
       !._calibrated_right_homography =
           IF cal_data.right_homography # None THEN "file_right" ELSE NoList,
       !._meters_per_pixel = cal_data.meters_per_pixel,
       !._use_calibrated_homography =
           cal_data.left_homography # None /\ cal_data.right_homography # None]

\* the lists json.load has built
loaded_lists(lists, cal_data) ==
    [lists EXCEPT !["file_left"] = cal_data.left_homography,
                  !["file_right"] = cal_data.right_homography]

\* CameraConfig.__init__(): every argument is stored as given, or its default,
\* and the calibration file is loaded
CameraConfig(focal_length_mm, resolution, pan_angle, cal_data) ==
    _load_calibration_file(
        [made |-> TRUE,
         focal_length_mm |-> or_default(focal_length_mm, Rat(295, 100)),
         resolution |-> or_default(resolution, <<1280, 720>>),
         pan_angle |-> pan_angle,
         _meters_per_pixel |-> None,
         _calibrated_left_homography |-> NoList,
         _calibrated_right_homography |-> NoList,
         _use_calibrated_homography |-> FALSE],
        cal_data)

\* compute_principal_point(): (width / 2.0, height / 2.0)
compute_principal_point(c) == <<Rat(c.resolution[1], 2), Rat(c.resolution[2], 2)>>

\* set_calibrated_homography(): the two lists are stored as they are, not copied
set_calibrated_homography(c, lists, left_homography, right_homography) ==
    IF Len(lists[left_homography]) # 9 \/ Len(lists[right_homography]) # 9
    THEN [c |-> c, err |-> "ValueError"]
    ELSE [c |-> [c EXCEPT !._calibrated_left_homography = left_homography,
                          !._calibrated_right_homography = right_homography,
                          !._use_calibrated_homography = TRUE],
          err |-> "none"]

\* the geometric matrix: h31 = -tan(theta), theta = -pan for 'left', +pan for 'right'
geometric_homography(c, camera_side) ==
    <<One, Zero, Zero, Zero, One, Zero,
      RNeg(RDiv(Sin((IF camera_side = "left" THEN -1 ELSE 1) * c.pan_angle),
                Cos((IF camera_side = "left" THEN -1 ELSE 1) * c.pan_angle))),
      Zero, One>>

\* compute_homography_matrix(): the stored calibrated list itself when the
\* calibrated matrices are in use, else a new list with the geometric matrix
compute_homography_matrix(c, lists, camera_side) ==
    IF camera_side \notin {"left", "right"}
    THEN [list |-> NoList, lists |-> lists, err |-> "ValueError"]
    ELSE IF c._use_calibrated_homography /\ camera_side = "left"
            /\ truthy(lists, c._calibrated_left_homography)
    THEN [list |-> c._calibrated_left_homography, lists |-> lists, err |-> "none"]
    ELSE IF c._use_calibrated_homography /\ camera_side = "right"
            /\ truthy(lists, c._calibrated_right_homography)
    THEN [list |-> c._calibrated_right_homography, lists |-> lists, err |-> "none"]
    ELSE [list |-> "computed",
          lists |-> [lists EXCEPT !["computed"] = geometric_homography(c, camera_side)],
          err |-> "none"]

\* calibrate_from_reference(): _meters_per_pixel = reference_meters / reference_pixels
calibrate_from_reference(c, reference_pixels, reference_meters) ==
    IF reference_pixels = Zero
    THEN [c |-> c, err |-> "ZeroDivisionError"]
    ELSE [c |-> [c EXCEPT !._meters_per_pixel = RDiv(reference_meters, reference_pixels)],
          err |-> "none"]

\* pixels_to_meters(): RuntimeError before calibration, else distance * scale
pixels_to_meters(c, pixel_distance) ==
    IF c._meters_per_pixel = None
    THEN [value |-> None, err |-> "RuntimeError"]
    ELSE [value |-> RMul(pixel_distance, c._meters_per_pixel), err |-> "none"]

\* meters_to_pixels(): RuntimeError before calibration, else distance / scale
meters_to_pixels(c, meter_distance) ==
    IF c._meters_per_pixel = None
    THEN [value |-> None, err |-> "RuntimeError"]
    ELSE IF c._meters_per_pixel = Zero
    THEN [value |-> None, err |-> "ZeroDivisionError"]
    ELSE [value |-> RDiv(meter_distance, c._meters_per_pixel), err |-> "none"]

\* the value behind an attribute that is None or a list
list_value(lists, x) == IF x = NoList THEN None ELSE lists[x]

\* save_calibration(): the matrices and the scale that are truthy are written
\* under their keys; json.dump writes each float so that json.load reads the
\* same float back, and every list by its contents
save_calibration(c, lists) ==
    [left_homography |->
         IF truthy(lists, c._calibrated_left_homography)
         THEN lists[c._calibrated_left_homography] ELSE None,
     right_homography |->
         IF truthy(lists, c._calibrated_right_homography)
         THEN lists[c._calibrated_right_homography] ELSE None,
     meters_per_pixel |->
         IF c._meters_per_pixel # None /\ c._meters_per_pixel # Zero
         THEN c._meters_per_pixel ELSE None]

InitCam ==
    /\ cfg = NoConfig
    /\ heap = NoLists
    /\ IdleLib
    /\ ret = [op |-> "init"]
    /\ h = NoEngine
    /\ h2 = NoEngine
    /\ current_yaw = 0
    /\ uniforms = Idle.uniforms
    /\ loop = Idle.loop
    /\ timer = Idle.timer
    /\ pipeline = Idle.pipeline
    /\ pc = Idle.pc

\* config = CameraConfig(focal_length_mm = f, resolution = r, pan_angle = p),
\* with cal_data in the calibration file; a run constructs one configuration
Construct ==
    /\ ~cfg.made
    /\ \E f \in FocalArgs, r \in ResolutionArgs, p \in PanArgs, cal_data \in CalibrationFiles :
          /\ cfg' = CameraConfig(f, r, p, cal_data)
          /\ heap' = loaded_lists(heap, cal_data)
          /\ ret' = [op |-> "CameraConfig", focal_length_mm |-> f, resolution |-> r,
                     err |-> "none"]
    /\ UNCHANGED <<h, h2, animVars, libVars>>

\* config.resolution = r: a plain attribute
AssignResolution ==
    /\ cfg.made
    /\ \E r \in ResolutionArgs \ {None} :
          /\ cfg' = [cfg EXCEPT !.resolution = r]
          /\ ret' = [op |-> "resolution", value |-> r, err |-> "none"]
    /\ UNCHANGED <<heap, h, h2, animVars, libVars>>

\* config.focal_length_mm = f: a plain attribute
AssignFocalLength ==
    /\ cfg.made
    /\ \E f \in FocalArgs \ {None} :
          /\ cfg' = [cfg EXCEPT !.focal_length_mm = f]
          /\ ret' = [op |-> "focal_length_mm", value |-> f, err |-> "none"]
    /\ UNCHANGED <<heap, h, h2, animVars, libVars>>

ComputePrincipalPoint ==
    /\ cfg.made
    /\ ret' = [op |-> "compute_principal_point", value |-> compute_principal_point(cfg)]
    /\ UNCHANGED <<cfg, heap, h, h2, animVars, libVars>>

Calibrated(r) ==
    /\ cfg' = r.c
    /\ ret' = [op |-> "calibrate_from_reference", err |-> r.err]
    /\ UNCHANGED <<heap, h, h2, animVars, libVars>>

CalibrateFromReference ==
    /\ cfg.made
    /\ \E p \in ReferencePixels, m \in ReferenceMeters :
          Calibrated(calibrate_from_reference(cfg, p, m))

Converted(op, d, r) ==
    /\ ret' = [op |-> op, distance |-> d, value |-> r.value, err |-> r.err]
    /\ UNCHANGED <<cfg, heap, h, h2, animVars, libVars>>

PixelsToMeters ==
    /\ cfg.made
    /\ \E d \in PixelDistances : Converted("pixels_to_meters", d, pixels_to_meters(cfg, d))

MetersToPixels ==
    /\ cfg.made
    /\ \E d \in PixelDistances : Converted("meters_to_pixels", d, meters_to_pixels(cfg, d))

HomographySet(r) ==
    /\ cfg' = r.c
    /\ ret' = [op |-> "set_calibrated_homography", err |-> r.err]
    /\ UNCHANGED <<heap, h, h2, animVars, libVars>>

\* config.set_calibrated_homography(left, right) with lists of the caller
SetCalibratedHomography ==
    /\ cfg.made
    /\ \E l \in {"left_arg", "short_arg"} :
          HomographySet(set_calibrated_homography(cfg, heap, l, "right_arg"))

HomographyReturned(side, r) ==
    /\ heap' = r.lists
    /\ ret' = [op |-> "compute_homography_matrix", camera_side |-> side,
               list |-> r.list, err |-> r.err]
    /\ UNCHANGED <<cfg, h, h2, animVars, libVars>>

\* m = config.compute_homography_matrix(side)
ComputeHomographyMatrix ==
    /\ cfg.made
    /\ \E side \in CameraSides :
          HomographyReturned(side, compute_homography_matrix(cfg, heap, side))

\* m[6] = 5.0 on the list the last compute_homography_matrix returned
MutateReturned ==
    /\ ret.op = "compute_homography_matrix"
    /\ ret.err = "none"
    /\ heap' = [heap EXCEPT ![ret.list][7] = I(5)]
    /\ ret' = [op |-> "mutate", list |-> ret.list]
    /\ UNCHANGED <<cfg, h, h2, animVars, libVars>>

\* config.save_calibration(): the file now holds cal_data
SaveCalibration ==
    /\ cfg.made
    /\ ret' = [op |-> "save_calibration", cal_data |-> save_calibration(cfg, heap)]
    /\ UNCHANGED <<cfg, heap, h, h2, animVars, libVars>>

\* CameraConfig() in a new run, with the file save_calibration has written:
\* the configuration and the lists json.load builds there
LoadSaved ==
    /\ ret.op = "save_calibration"
    /\ \E p \in PanArgs :
          ret' = [op |-> "load_saved", cal_data |-> ret.cal_data,
                  c |-> CameraConfig(None, None, p, ret.cal_data),
                  lists |-> loaded_lists(NoLists, ret.cal_data)]
    /\ UNCHANGED <<cfg, heap, h, h2, animVars, libVars>>

NextCam ==
    \/ Construct \/ AssignResolution \/ AssignFocalLength
    \/ ComputePrincipalPoint \/ CalibrateFromReference \/ PixelsToMeters
    \/ MetersToPixels \/ SetCalibratedHomography \/ ComputeHomographyMatrix
    \/ MutateReturned \/ SaveCalibration \/ LoadSaved

SpecCam == InitCam /\ [][NextCam]_vars

---------------------------------------------------------------------------
(* library/pipeline.py: build_pipeline_from_ini, create_sdp_params *)

\* P.get(key) for a key the section does not hold
NoKey == "None"

\* the payload type create_sdp_params falls back to
DefaultPt == 96

\* the "pay" strings of the encode sections, character by character
PayHevc == <<"r", "t", "p", "h", "2", "6", "5", "p", "a", "y", " ", "p", "t", "=", "9", "6", " ", "c", "o", "n", "f", "i", "g", "-", "i", "n", "t", "e", "r", "v", "a", "l", "=", "1">>

PayHevc97 == <<"r", "t", "p", "h", "2", "6", "5", "p", "a", "y", " ", "p", "t", "=", "9", "7", " ", "c", "o", "n", "f", "i", "g", "-", "i", "n", "t", "e", "r", "v", "a", "l", "=", "1">>

PayAvc == <<"r", "t", "p", "h", "2", "6", "4", "p", "a", "y", " ", "c", "o", "n", "f", "i", "g", "-", "i", "n", "t", "e", "r", "v", "a", "l", "=", "1", " ", "p", "t", "=", "9", "7">>

PayNoPt == <<"R", "t", "p", "H", "2", "6", "5", "P", "a", "y", " ", "m", "t", "u", "=", "1", "2", "0", "0">>

\* the sections an INI file holds besides the profile: sources with their
\* kind and caps, blocks with their template, encoders, sinks
SourceSections ==
    [cam0 |-> [kind |-> "v4l2src", caps |-> <<"video/x-raw,width=", "{width}">>],
     cam1 |-> [kind |-> "testsrc", caps |-> <<>>]]

BlockSections ==
    [scale |-> <<"videoscale", "!", "video/x-raw,height=", "{height}">>,
     mixer |-> <<"compositor", "name=mix">>]

EncodeSections ==
    [hevc |-> [element |-> "mpph265enc", pay |-> PayHevc],
     hevc97 |-> [element |-> "mpph265enc", pay |-> PayHevc97],
     avc |-> [element |-> "x264enc", pay |-> PayAvc],
     nopt |-> [element |-> "mpph265enc", pay |-> PayNoPt],
     raw |-> [element |-> "identity", pay |-> <<>>]]

SinkSections == [udp |-> [addr |-> "239.255.0.10", port |-> "5004"]]

\* the profiles an INI file may hold under [pipeline:prod]
Profiles ==
    [sources : {<<>>, <<"cam0">>, <<"cam0", "cam1">>, <<"cam0", "ghost">>},
     pre : {<<>>, <<"scale">>, <<"nosuch">>},
     post : {<<>>, <<"scale">>},
     mix : {"", "mixer", "nosuch"},
     encode : {NoKey, "", "hevc", "hevc97", "avc", "nopt", "raw", "nosuch"},
     sink : {NoKey, "", "udp", "nosuch"}]

\* the context of the templates: width, height and fps of [globals]
ctx == [width |-> "3840", height |-> "2160", fps |-> "30"]

\* one word of a template formatted with the context
format_word(word) ==
    CASE word = "{width}" -> ctx.width
      [] word = "{height}" -> ctx.height
      [] word = "{fps}" -> ctx.fps
      [] OTHER -> word

\* render_block(): template.format(**ctx).strip(), word by word
render_block(template) == [i \in 1..Len(template) |-> format_word(template[i])]

\* str(idx) in f'! mix.sink_{idx}'
str_idx(idx) == CASE idx = 0 -> "0" [] idx = 1 -> "1" [] idx = 2 -> "2"

\* the words of a chain put after what stands there, behind a "!"
RECURSIVE joined(_)
joined(chain) ==
    IF chain = <<>> THEN <<>>
    ELSE IF Len(chain) = 1 THEN chain[1]
    ELSE chain[1] \o <<"!">> \o joined(Tail(chain))

\* the head of a source fragment for the section's kind
source_head(kind, name) ==
    CASE kind = "v4l2src" -> <<"v4l2src", "device=/dev/video0", "name=" \o name>>
      [] kind = "testsrc" -> <<"videotestsrc", "pattern=0", "is-live=true", "name=" \o name>>
      [] kind = "appsrc" -> <<"appsrc", "name=" \o name, "is-live=true", "format=time">>

\* build_source_fragment(): the source, its caps, queue ! videoconvert !
\* queue, and with a mixer the link to mix.sink_<idx>
build_source_fragment(name, idx, has_mixer) ==
    joined(<<source_head(SourceSections[name].kind, name)>>
           \o (IF SourceSections[name].caps = <<>> THEN <<>>
               ELSE <<render_block(SourceSections[name].caps)>>)
           \o << <<"queue">>, <<"videoconvert">>, <<"queue">> >>
           \o (IF has_mixer THEN << <<"mix.sink_" \o str_idx(idx)>> >> ELSE <<>>))

\* the pre blocks appended to a source fragment, each behind " ! "
RECURSIVE with_pre_blocks(_, _)
with_pre_blocks(frag, pre_names) ==
    IF pre_names = <<>> THEN frag
    ELSE with_pre_blocks(frag \o <<"!">> \o render_block(BlockSections[Head(pre_names)]),
                         Tail(pre_names))

\* step 1 of build_pipeline_from_ini(): for idx, sname in enumerate(source_names)
build_source_fragments(P, has_mixer) ==
    [idx \in 1..Len(P.sources) |->
        with_pre_blocks(build_source_fragment(P.sources[idx], idx - 1, has_mixer), P.pre)]

has(sections, name) == name \in DOMAIN sections

all_in(names, sections) == \A i \in 1..Len(names) : has(sections, names[i])

\* the first exception build_pipeline_from_ini() raises for a profile, "none"
\* if it returns
build_error(ini, profile) ==
    IF ~has(ini, profile) THEN "ValueError"
    ELSE IF ini[profile].encode = NoKey \/ ini[profile].sink = NoKey THEN "AttributeError"
    ELSE IF ~all_in(ini[profile].sources, SourceSections) THEN "ValueError"
    ELSE IF ini[profile].sources # <<>> /\ ~all_in(ini[profile].pre, BlockSections)
    THEN "ValueError"
    ELSE IF ini[profile].mix # "" /\ ~has(BlockSections, ini[profile].mix) THEN "ValueError"
    ELSE IF ~all_in(ini[profile].post, BlockSections) THEN "ValueError"
    ELSE IF ~has(EncodeSections, ini[profile].encode) THEN "ValueError"
    ELSE IF ~has(SinkSections, ini[profile].sink) THEN "ValueError"
    ELSE "none"

\* the fragments after the sources: mixer, post blocks, encoder, payloader, sink
RECURSIVE rendered_blocks(_)
rendered_blocks(names) ==
    IF names = <<>> THEN <<>>
    ELSE <<render_block(BlockSections[Head(names)])>> \o rendered_blocks(Tail(names))

\* s.split(): the words of a string of characters, each word a string
RECURSIVE word_of(_)
word_of(chars) == IF chars = <<>> THEN "" ELSE Head(chars) \o word_of(Tail(chars))

words_of(chars) == [i \in 1..Len(split(chars)) |-> word_of(split(chars)[i])]

\* build_pipeline_from_ini(): the fragments joined by " ! "
build_pipeline_from_ini(ini, profile) ==
    IF build_error(ini, profile) # "none"
    THEN [err |-> build_error(ini, profile), fragments |-> <<>>, pipeline |-> <<>>]
    ELSE [err |-> "none",
          fragments |-> build_source_fragments(
                            ini[profile],
                            ini[profile].mix # "" /\ Len(ini[profile].sources) >= 1),
          pipeline |->
              joined(build_source_fragments(
                         ini[profile],
                         ini[profile].mix # "" /\ Len(ini[profile].sources) >= 1)
                     \o (IF ini[profile].mix # ""
                         THEN <<render_block(BlockSections[ini[profile].mix])>> ELSE <<>>)
                     \o rendered_blocks(ini[profile].post)
                     \o << <<EncodeSections[ini[profile].encode].element, "name=enc">> >>
                     \o (IF EncodeSections[ini[profile].encode].pay = <<>> THEN <<>>
                         ELSE <<words_of(EncodeSections[ini[profile].encode].pay)>>)
                     \o << <<"udpsink", "host=" \o SinkSections[ini[profile].sink].addr,
                             "port=" \o SinkSections[ini[profile].sink].port,
                             "auto-multicast=true", "multicast-iface=0.0.0.0",
                             "mttl=16">> >>)]

\* the index at which sub first stands in s, 0 if nowhere
RECURSIVE find(_, _, _)
find(s, sub, i) ==
    IF i + Len(sub) - 1 > Len(s) THEN 0
    ELSE IF SubSeq(s, i, i + Len(sub) - 1) = sub THEN i
    ELSE find(s, sub, i + 1)

\* pay_str.split('pt=')[1]: what stands between the first 'pt=' and the next
after_pt(s) ==
    IF find(SubSeq(s, find(s, <<"p", "t", "=">>, 1) + 3, Len(s)), <<"p", "t", "=">>, 1) = 0
    THEN SubSeq(s, find(s, <<"p", "t", "=">>, 1) + 3, Len(s))
    ELSE SubSeq(s, find(s, <<"p", "t", "=">>, 1) + 3,
                find(s, <<"p", "t", "=">>, 1) + 1
                    + find(SubSeq(s, find(s, <<"p", "t", "=">>, 1) + 3, Len(s)),
                           <<"p", "t", "=">>, 1))

isdigit(s) == s # <<>> /\ \A i \in 1..Len(s) : s[i] \in Digits

RECURSIVE int(_)
int(s) == IF s = <<>> THEN 0 ELSE 10 * int(SubSeq(s, 1, Len(s) - 1)) + digit(s[Len(s)])

\* the first exception create_sdp_params() raises, "none" if it returns
sdp_error(ini, profile) ==
    IF ~has(ini, profile) THEN "ValueError"
    ELSE IF ini[profile].sink = NoKey THEN "AttributeError"
    ELSE IF ini[profile].sink = "" \/ ~has(SinkSections, ini[profile].sink) THEN "ValueError"
    ELSE IF ini[profile].encode = NoKey THEN "AttributeError"
    ELSE IF ini[profile].encode = "" THEN "ValueError"
    ELSE IF ~has(EncodeSections, ini[profile].encode) THEN "KeyError"
    ELSE IF EncodeSections[ini[profile].encode].pay = <<>> THEN "ValueError"
    ELSE IF find(EncodeSections[ini[profile].encode].pay, <<"p", "t", "=">>, 1) = 0
    THEN "IndexError"
    ELSE "none"

\* the pt and the codec create_sdp_params() reads from the pay string
sdp_of_pay(pay_str) ==
    [pt |-> IF isdigit(strip(after_pt(pay_str))) THEN int(strip(after_pt(pay_str)))
            ELSE DefaultPt,
     codec |-> IF find(lower(pay_str), <<"h", "2", "6", "5">>, 1) # 0 THEN "H265" ELSE "H264"]

\* create_sdp_params(): addr, port, pt and codec for the profile
create_sdp_params(ini, profile) ==
    IF sdp_error(ini, profile) # "none" THEN [err |-> sdp_error(ini, profile)]
    ELSE [err |-> "none",
          addr |-> SinkSections[ini[profile].sink].addr,
          port |-> SinkSections[ini[profile].sink].port,
          pt |-> sdp_of_pay(EncodeSections[ini[profile].encode].pay).pt,
          codec |-> sdp_of_pay(EncodeSections[ini[profile].encode].pay).codec]

\* an INI file with one profile, [pipeline:prod]
InitIni ==
    /\ ret \in {[op |-> "init", ini |-> [prod |-> P]] : P \in Profiles}
    /\ pc = Idle.pc
    /\ h = NoEngine
    /\ h2 = NoEngine
    /\ current_yaw = 0
    /\ uniforms = Idle.uniforms
    /\ loop = Idle.loop
    /\ timer = Idle.timer
    /\ pipeline = Idle.pipeline
    /\ cfg = NoConfig
    /\ heap = NoHeap
    /\ IdleLib

\* create_pipeline(args)
BuildPipelineFromIni ==
    /\ \E profile \in {"prod", "dev"} :
          ret' = [op |-> "build_pipeline_from_ini", ini |-> ret.ini, profile |-> profile,
                  out |-> build_pipeline_from_ini(ret.ini, profile)]
    /\ UNCHANGED <<h, h2, animVars, camVars, libVars>>

\* create_sdp_params(args)
CreateSdpParams ==
    /\ \E profile \in {"prod", "dev"} :
          ret' = [op |-> "create_sdp_params", ini |-> ret.ini, profile |-> profile,
                  out |-> create_sdp_params(ret.ini, profile)]
    /\ UNCHANGED <<h, h2, animVars, camVars, libVars>>

NextIni == BuildPipelineFromIni \/ CreateSdpParams

SpecIni == InitIni /\ [][NextIni]_vars

---------------------------------------------------------------------------
(* Properties of the rendering loop and of CameraConfig *)

\* M recomputed from the engine's fields: N^-1 (H A)
snapshot_matrix(e) ==
    MatMul(pixel_to_uv_matrix(e.cam_width, e.cam_height, e.y_up_src),
           MatMul(homography(e).m, plane_to_uv_matrix(e)))

SingularPublished ==
    /\ loop = "running"
    /\ ret.op = "update_uniforms"
    /\ ~homography(h).ok

OkPublished ==
    /\ ret.op = "update_uniforms"
    /\ homography(h).ok
    /\ uniforms = build_uniforms(h)

C9_InvalidParameter ==
    cfg.made =>
        /\ cfg.resolution[1] > 0 /\ cfg.resolution[2] > 0
        /\ RGt(cfg.focal_length_mm, Zero)

\* the contents of the calibrated matrices a configuration holds
stored_matrices(c, lists) ==
    <<IF c._calibrated_left_homography = NoList THEN None
      ELSE lists[c._calibrated_left_homography],
      IF c._calibrated_right_homography = NoList THEN None
      ELSE lists[c._calibrated_right_homography]>>

\* the attribute holding the calibrated matrix of a side
calibrated_for(c, side) ==
    IF side = "left" THEN c._calibrated_left_homography
    ELSE c._calibrated_right_homography

\* C12: the list a matrix-returning operation returns is a new one: writing to
\* it leaves the matrices the configuration stores as they were
C12_FreshMatrix ==
    [][ret'.op = "mutate" => stored_matrices(cfg', heap') = stored_matrices(cfg, heap)]_vars

\* C17: for each side, compute_homography_matrix returns the calibrated matrix
\* of that side whenever one is available, from the file or from
\* set_calibrated_homography, and the geometric matrix only when none is
C17_CalibratedPreferred ==
    (ret.op = "compute_homography_matrix" /\ ret.err = "none") =>
        IF calibrated_for(cfg, ret.camera_side) # NoList
        THEN ret.list = calibrated_for(cfg, ret.camera_side)
        ELSE /\ ret.list = "computed"
             /\ heap[ret.list] = geometric_homography(cfg, ret.camera_side)

\* C18: pixels_to_meters and meters_to_pixels raise RuntimeError exactly when
\* _meters_per_pixel is None, and called after a calibrate_from_reference that
\* returned they give a converted distance and raise nothing
C18_ConversionsAfterCalibration ==
    /\ [](ret.op \in {"pixels_to_meters", "meters_to_pixels"} =>
            (ret.err = "RuntimeError" <=> cfg._meters_per_pixel = None))
    /\ [][(/\ ret.op = "calibrate_from_reference"
           /\ ret.err = "none"
           /\ ret'.op \in {"pixels_to_meters", "meters_to_pixels"})
          => (ret'.err = "none" /\ ret'.value # None)]_vars

---------------------------------------------------------------------------
(* Properties of the engine *)

\* every entry has a non-zero denominator: nothing was divided by zero
Finite3(x) == \A i \in Idx : x[i][2] > 0
FiniteMatrix(m) == \A i \in Idx : Finite3(m[i])

\* the optical axis in world coordinates: the third row of R
optical_axis(e) == R(e)[3]

\* the plane normal is perpendicular to the optical axis
Perpendicular(e) == Dot(optical_axis(e), e.plane_normal) = Zero

\* camera at the origin, no rotation, plane facing the camera, and the output
\* window of scale Z/fx * width centred on the axis
IdentityConfig(e) ==
    /\ C(e) = <<Zero, Zero, Zero>>
    /\ e.roll = 0 /\ e.pitch = 0 /\ e.yaw = 0
    /\ e.plane_normal = optical_axis(e)
    /\ e.out_scale_x_mm_per_uv
         = RMul(RDiv(e.plane_distance, K(e)[1][1]), I(e.cam_width))
    /\ e.out_scale_y_mm_per_uv
         = RMul(RDiv(e.plane_distance, K(e)[2][2]), I(e.cam_height))
    /\ e.out_origin_x_mm = RNeg(RMul(Half, e.out_scale_x_mm_per_uv))
    /\ e.out_origin_y_mm = RNeg(RMul(Half, e.out_scale_y_mm_per_uv))

\* the output window is centred on the plane's support point
Centred(e) ==
    /\ e.out_origin_x_mm = RNeg(RMul(Half, e.out_scale_x_mm_per_uv))
    /\ e.out_origin_y_mm = RNeg(RMul(Half, e.out_scale_y_mm_per_uv))

C3_Canonical ==
    ret.op = "H" =>
        /\ FiniteMatrix(ret.m)
        /\ IF RGt(RAbs(H_raw(h)[3][3]), Eps)
           THEN /\ ret.ok
                /\ ret.m = MatScale(H_raw(h), H_raw(h)[3][3])
                /\ ret.m[3][3] = One
           ELSE /\ ~ret.ok
                /\ ret.m = H_raw(h)

\* the undivided matrix returned as singular with |H[2,2]| on the threshold
C3_Witness ==
    /\ ret.op = "H"
    /\ ~ret.ok
    /\ RAbs(ret.m[3][3]) = Eps

\* C4: map_point reports valid = false exactly when |w| < EPS for the w of
\* M (u, v, 1), and then divides nothing; otherwise it returns (x/w, y/w) and
\* valid = true; where the validation script divides, map_point gives the same
\* point; the call leaves the engine's inputs as they were
C4_MapPointState ==
    /\ ret.op = "map_point" =>
         LET out == MatVec(normalized(h).m, <<ret.u, ret.v, One>>)
         IN  /\ ret.out.valid <=> ~RLt(RAbs(out[3]), Eps)
             /\ ret.out.x[2] > 0 /\ ret.out.y[2] > 0
             /\ ret.out.valid =>
                  /\ out[3] # Zero
                  /\ RMul(ret.out.x, out[3]) = out[1]
                  /\ RMul(ret.out.y, out[3]) = out[2]
    /\ ret.op = "validate_test" /\ ret.out.divided =>
         LET p == map_point(normalized(h).m, Half, Half)
         IN  p.valid /\ p.x = ret.out.x /\ p.y = ret.out.y

C6_IdentitySanity ==
    (ret.op = "map_point" /\ IdentityConfig(h)) =>
        /\ ret.out.valid
        /\ ret.out.x = ret.u
        /\ ret.out.y = ret.v

C8_PixelToUV ==
    ret.op = "N_src_inv" =>
        /\ ret.uv[1] = Rat(ret.x, h.cam_width)
        /\ ret.uv[2] = RSub(One, Rat(ret.y, h.cam_height))
        /\ RLe(Zero, ret.uv[2]) /\ RLe(ret.uv[2], One)

\* C10: an assigned distance with |d| < EPS is rejected with DegeneratePlane and
\* any other is stored, so the engine's distance always has |d| >= EPS
C10_DegeneratePlane ==
    /\ RGe(RAbs(h.plane_distance), Eps)
    /\ (ret.op = "set" /\ ret.field = "plane_distance") =>
         IF RLt(RAbs(ret.value), Eps)
         THEN ret.err = "DegeneratePlane"
         ELSE ret.err = "none" /\ h.plane_distance = ret.value

\* a small non-zero distance was refused
C10_Witness ==
    /\ ret.op = "set" /\ ret.field = "plane_distance"
    /\ ret.value # Zero
    /\ ret.err = "DegeneratePlane"

---------------------------------------------------------------------------
(* Properties of a configured engine *)

\* the plane is neither facing the camera squarely nor seen edge-on
Oblique(e) ==
    /\ Dot(optical_axis(e), e.plane_normal) # Zero
    /\ RLt(RAbs(Dot(optical_axis(e), e.plane_normal)), One)

\* a window point lands inside the source frame, in front of the camera
InFrame(p, sign) ==
    /\ p.valid
    /\ (p.w[1] > 0) = sign
    /\ RLe(Zero, p.x) /\ RLe(p.x, One)
    /\ RLe(Zero, p.y) /\ RLe(p.y, One)

\* the four corners of the output window land inside the source frame with a
\* w of one sign: the window's part of the plane is fully visible
CornersInFrame(M, sign) ==
    \A p \in {<<Zero, Zero>>, <<One, Zero>>, <<One, One>>, <<Zero, One>>} :
        InFrame(map_point(M, p[1], p[2]), sign)

FullyVisible(e) == \E sign \in BOOLEAN : CornersInFrame(normalized(e).m, sign)

StrictlyIncreasing(out) == \A k \in 1..(LineSamples - 1) : RLt(out[k].x, out[k + 1].x)
StrictlyDecreasing(out) == \A k \in 1..(LineSamples - 1) : RLt(out[k + 1].x, out[k].x)
Constant(out) == \A k \in 1..(LineSamples - 1) : out[k + 1].x = out[k].x
OneSign(out) ==
    /\ \A k \in 1..LineSamples : out[k].valid
    /\ \A k \in 1..(LineSamples - 1) : (out[k].w[1] > 0) = (out[k + 1].w[1] > 0)

\* zero exactly when the output line at row v has a vertical image in the source:
\* M[0][0] (M[2][1] v + M[2][2]) - M[2][0] (M[0][1] v + M[0][2])
line_det(M, v) ==
    RSub(RMul(M[1][1], RAdd(RMul(M[3][2], v), M[3][3])),
         RMul(M[3][1], RAdd(RMul(M[1][2], v), M[1][3])))

\* C14: with roll = pitch = yaw = 0, whatever the camera position C, rotation()
\* is the identity matrix and translation() is -C
C14_ZeroAngles ==
    (ret.op = "pose" /\ h.roll = 0 /\ h.pitch = 0 /\ h.yaw = 0) =>
        /\ ret.R = << <<One, Zero, Zero>>, <<Zero, One, Zero>>, <<Zero, Zero, One>> >>
        /\ ret.t = <<RNeg(h.camera_x), RNeg(h.camera_y), RNeg(h.camera_z)>>

\* the pose read at zero angles from a camera off the origin
C14_Witness ==
    /\ ret.op = "pose"
    /\ h.roll = 0 /\ h.pitch = 0 /\ h.yaw = 0
    /\ h.camera_x = One
    /\ ret.t = <<I(-1), Zero, Zero>>

---------------------------------------------------------------------------
(* Properties of engines side by side *)

\* the instance an operation was not made on
other(i) == 3 - i

---------------------------------------------------------------------------
(* Properties of the marshalling functions *)

\* C16: every marshalling function emits the nine values of a row-major M in
\* column-major order: the k-th value the shader gets, counted from 0, is
\* M[k mod 3][k div 3] as a float, so all functions give the same uniform
\* values for the same M
C16_ColumnMajor ==
    ret.op # "init" =>
        \A k \in 0..8 :
            to_float(uniforms.matrix_data[k + 1])
                = to_float(ret.matrix[(k % 3) + 1][(k \div 3) + 1])

---------------------------------------------------------------------------
(* Properties of the yaw animation *)

\* the fronto-parallel setup of run(): camera at the origin, plane normal
\* (0,0,1) at 4000 mm, the window matching the field of view, at any yaw
FrontoParallel(e) == e # NoEngine /\ [e EXCEPT !.yaw = 0] = Rig(configured(0, WorldZ))

\* np.max(np.abs(center_out - 0.5)) < 0.02
near_center(c) ==
    /\ c.finite
    /\ RLt(RAbs(RSub(c.x, Half)), Rat(2, 100))
    /\ RLt(RAbs(RSub(c.y, Half)), Rat(2, 100))

\* C19: in the fronto-parallel setup, at every yaw the animation visits
\* (multiples of 5 degrees in [0, 360)) M maps the UV centre (0.5, 0.5) to
\* (0.5, 0.5) within 0.02: what the engine holds, what the handler printed and
\* what the shader was given all keep the centre in place
C19_CenterStable ==
    FrontoParallel(h) =>
        /\ h.yaw % 5 = 0 /\ h.yaw \in 0..359
        /\ near_center(center_out(normalized(h).m))
        /\ ret.op = "update_uniforms" =>
              /\ near_center(ret.center_out)
              /\ uniforms = build_uniforms(h)

C19_Witness ==
    /\ FrontoParallel(h)
    /\ ret.op = "update_uniforms"
    /\ current_yaw = 45
    /\ h.yaw = 45
    /\ near_center(ret.center_out)
    /\ uniforms.matrix_data[2] # Zero

---------------------------------------------------------------------------
(* Properties of Pipeline *)

\* C21: a successful append makes the appended element the tail, the element
\* is a child of the Gst pipeline and no child is lost, and the one link made
\* runs from the element that was tail just before to the appended element; on
\* an empty Pipeline the append adds and links nothing
C21_AppendLinksFromTail ==
    [][(ret'.op = "append" /\ ret'.err = "none") =>
          /\ tail' = ret'.element
          /\ ret'.element \in gst'.children
          /\ gst.children \subseteq gst'.children
          /\ gst'.links = IF tail = "None" THEN gst.links
                          ELSE Append(gst.links, <<tail, ret'.element>>)]_vars

C21_Witness ==
    /\ ret.op = "append" /\ ret.err = "none" /\ ret.element = "mk"
    /\ tail = "mk"
    /\ gst.links = << <<"left_eye", "left caps">>, <<"left caps", "mk">> >>
    /\ gst.children = {"left_eye", "left caps", "mk"}

\* C28: on a test source whose pattern starts at 22 or below, a walk_pattern
\* call raises the pattern by one and returns it, except where pattern + 1 is
\* 23: exactly those calls send EOS, return None and leave the pattern as it
\* is; the pattern never reaches 23, and repeated calls do send EOS
C28_WalkPatternEnds ==
    /\ [](gst.pattern < EosPattern)
    /\ [][(ret'.op = "walk_pattern" /\ ret'.err = "none") =>
             IF gst.pattern + 1 = EosPattern
             THEN /\ gst'.eos = gst.eos + 1
                  /\ ret'.value = None
                  /\ gst'.pattern = gst.pattern
             ELSE /\ gst'.eos = gst.eos
                  /\ ret'.value = I(gst.pattern + 1)
                  /\ gst'.pattern = gst.pattern + 1]_vars
    /\ ("left_eye" \in gst.children) ~> (gst.eos > 0)

C28_Witness ==
    /\ ret.op = "walk_pattern" /\ ret.err = "none" /\ ret.value = None
    /\ gst.pattern = 22
    /\ gst.eos = 2

---------------------------------------------------------------------------
(* Properties of the yaw steps *)

\* the yaw values of the animation
YawSteps == {5 * k : k \in 0..71}

\* C22: after every update_uniforms call current_yaw is a multiple of 5 in
\* [0, 360) and the engine's yaw equals it; a tick advances current_yaw by
\* exactly 5 modulo 360 and returns True, leaving its timer scheduled; and
\* while the loop runs every multiple of 5 is visited again
C22_YawSteps ==
    /\ [](ret.op = "update_uniforms" =>
            /\ current_yaw \in YawSteps
            /\ h.yaw = current_yaw)
    /\ [][current_yaw' # current_yaw =>
            /\ current_yaw' = (current_yaw + 5) % 360
            /\ h'.yaw = current_yaw'
            /\ ret'.op = "update_uniforms"
            /\ timer']_vars
    /\ \A y \in YawSteps :
          [](loop = "running" => <>(current_yaw = y \/ loop # "running"))

\* the tick that wraps from 355 to 0
C22_Witness ==
    /\ ret.op = "update_uniforms"
    /\ current_yaw = 0
    /\ h.yaw = 0
    /\ timer
    /\ loop = "running"

---------------------------------------------------------------------------
(* Properties of the runner scripts *)

\* C23: in every runner script, once the pipeline was set to PLAYING, the
\* script finishes only with the pipeline set to NULL, whichever of EOS, ERROR
\* and SIGINT ended the main loop; and a bus message of another type never ends
\* the loop
C23_NullBeforeFinish ==
    /\ [](pc \in {"done", "killed"} => pipeline = "NULL")
    /\ [][(ret'.op = "message" /\ ret'.type \notin {"EOS", "ERROR"}) => loop' = loop]_vars

---------------------------------------------------------------------------
(* Properties of interactive_calibration *)

\* the documented steps of the k1 and the k2 commands
StepOf(cmd) ==
    CASE cmd \in {<<"+", "+">>, <<"k", "2", "+", "+">>} -> Rat(5, 100)
      [] cmd \in {<<"+">>, <<"k", "2", "+">>} -> Rat(1, 100)
      [] cmd \in {<<"-", "-">>, <<"k", "2", "-", "-">>} -> Rat(-5, 100)
      [] cmd \in {<<"-">>, <<"k", "2", "-">>} -> Rat(-1, 100)

K1Steps == {<<"+", "+">>, <<"+">>, <<"-", "-">>, <<"-">>}

K2Steps == {<<"k", "2", "+", "+">>, <<"k", "2", "+">>, <<"k", "2", "-", "-">>, <<"k", "2", "-">>}

\* C24: a k1 command (++, +, --, -) changes only k1 and a k2 command (k2++,
\* k2+, k2--, k2-) only k2, by the documented step; "set <value>" changes only
\* k1, to the value, and nothing when the value is invalid; r and reset set
\* (k1, k2) to (-0.2, 0.0); every other line leaves k1 and k2 as they are
C24_CommandFrames ==
    [][ret'.op = "command" =>
          IF ret'.cmd \in K1Steps
          THEN k1' = RAdd(k1, StepOf(ret'.cmd)) /\ k2' = k2
          ELSE IF ret'.cmd \in K2Steps
          THEN k2' = RAdd(k2, StepOf(ret'.cmd)) /\ k1' = k1
          ELSE IF ret'.cmd \in {<<"r">>, <<"r", "e", "s", "e", "t">>}
          THEN k1' = Rat(-2, 10) /\ k2' = Zero
          ELSE IF startswith(ret'.cmd, <<"s", "e", "t", " ">>)
          THEN /\ k2' = k2
               /\ k1' = IF ret'.out = "Invalid value" THEN k1 ELSE float(split(ret'.cmd)[2]).value
               /\ ret'.cmd \in {<<"s", "e", "t", " ", "a", "b", "c">>,
                                <<"s", "e", "t", " ", "-">>,
                                <<"s", "e", "t", " ", "1", ".", "2", ".", "3">>}
                      <=> ret'.out = "Invalid value"
          ELSE k1' = k1 /\ k2' = k2]_vars

\* k1 set to -0.25 by "set -0.25" after k2 was stepped away from 0
C24_Witness ==
    /\ ret.op = "command"
    /\ ret.cmd = <<"s", "e", "t", " ", "-", "0", ".", "2", "5">>
    /\ k1 = Rat(-25, 100)
    /\ k2 = Rat(6, 100)

---------------------------------------------------------------------------
(* Properties of the INI pipeline builder *)

\* the profile, or a source, block, encode or sink it refers to or must refer
\* to, is missing from the INI file
MissingEntry(ini, profile) ==
    \/ ~has(ini, profile)
    \/ /\ has(ini, profile)
       /\ \/ ~all_in(ini[profile].sources, SourceSections)
          \/ ini[profile].sources # <<>> /\ ~all_in(ini[profile].pre, BlockSections)
          \/ ~all_in(ini[profile].post, BlockSections)
          \/ ini[profile].mix # "" /\ ~has(BlockSections, ini[profile].mix)
          \/ ~has(EncodeSections, ini[profile].encode)
          \/ ~has(SinkSections, ini[profile].sink)

\* C25: with a mixer configured, every source fragment that
\* build_pipeline_from_ini produces ends with the link to mix.sink_<idx>, idx
\* the position of the source in the profile's sources, and the pre blocks of
\* the source stand before that link
C25_MixerLinkLast ==
    (/\ ret.op = "build_pipeline_from_ini"
     /\ ret.out.err = "none"
     /\ ret.ini[ret.profile].mix # "") =>
        \A idx \in 1..Len(ret.out.fragments) :
            ret.out.fragments[idx][Len(ret.out.fragments[idx])]
                = "mix.sink_" \o str_idx(idx - 1)

\* C26: build_pipeline_from_ini and create_sdp_params fail with ValueError,
\* and no other exception, whenever the profile or a source, block, encode or
\* sink the profile refers to or must refer to is missing from the INI file
C26_MissingIsValueError ==
    (/\ ret.op \in {"build_pipeline_from_ini", "create_sdp_params"}
     /\ MissingEntry(ret.ini, ret.profile)) =>
        ret.out.err = "ValueError"

\* the number written as pt=<n> in a pay string, read word by word
RECURSIVE written_pt(_)
written_pt(pay_words) ==
    IF startswith(Head(pay_words), <<"p", "t", "=">>)
    THEN int(SubSeq(Head(pay_words), 4, Len(Head(pay_words))))
    ELSE written_pt(Tail(pay_words))

\* C27: create_sdp_params returns as pt the number written as pt=<n> in the
\* encode section's pay string, wherever the token stands, and codec H265
\* exactly when the payloader the string names is an h265 one, else H264
C27_PayloadType ==
    (ret.op = "create_sdp_params" /\ ret.out.err = "none") =>
        /\ ret.out.pt = written_pt(split(EncodeSections[ret.ini[ret.profile].encode].pay))
        /\ ret.out.codec = "H265"
              <=> find(lower(split(EncodeSections[ret.ini[ret.profile].encode].pay)[1]),
                       <<"h", "2", "6", "5">>, 1) # 0

---------------------------------------------------------------------------
(* Properties of the calibration file *)

\* C29: a CameraConfig that loads the file written by c.save_calibration has
\* the same calibrated left and right homographies, the same meters_per_pixel
\* and the same use-calibrated flag as c
C29_CalibrationRoundTrip ==
    ret.op = "load_saved" =>
        /\ list_value(ret.lists, ret.c._calibrated_left_homography)
              = list_value(heap, cfg._calibrated_left_homography)
        /\ list_value(ret.lists, ret.c._calibrated_right_homography)
              = list_value(heap, cfg._calibrated_right_homography)
        /\ ret.c._meters_per_pixel = cfg._meters_per_pixel
        /\ ret.c._use_calibrated_homography = cfg._use_calibrated_homography

====
